---- MODULE Spec2Model ----
(***************************************************************************)
(* A model of the Merkle-Patricia-Trie proof circuit of zkevm-circuits:    *)
(* the random-linear-combination (RLC) accumulators of mpt.rs and          *)
(* helpers.rs, the "Branch key RLC" gate, the storage-leaf key gates, the  *)
(* extension-node RLC gate and its witness assignment, the non-existing    *)
(* account ("wrong leaf") gate and the use of the public-input column.     *)
(*                                                                         *)
(* Field elements are integers modulo FieldModulus.  The circuit's field   *)
(* is a 254-bit prime field; the model keeps a prime field, scaled to the  *)
(* smallest prime above 255 so that every byte is its own field element    *)
(* and a witness cell can range over the whole field.                      *)
(***************************************************************************)
EXTENDS Integers, Sequences, FiniteSets, TLC

VARIABLES
    row,        \* SpecAcc: the witness row that compute_acc_and_mult reads
    acc,        \* SpecAcc: the accumulator (*acc)
    mult,       \* SpecAcc: the multiplier (*mult)
    fold,       \* SpecAcc: bookkeeping of the calls made: acc0, mult0, start0, windows
    ne,         \* SpecNonExisting: the account-leaf key row, the ACCOUNT_NON_EXISTING
                \* row and the cells sum, sum_prev, diff_inv of the latter
    ext,        \* SpecExt: the extension-node S and C rows, the ProofValues fields
                \* assign works on and the accumulator cells it writes
    chain,      \* SpecRoot: the chained proofs' inter_start_root and inter_final_root
                \* cells, the values given in the instance column, the verdict
    trace,      \* Spec: the branch levels of one root-to-leaf path with their
                \* key accumulator cells, and the storage leaf that ends it
    node,       \* SpecNode: the extension rows of one branch with the cells of
                \* the branch init row and of the rows around that their
                \* gates and lookups query
    asg,        \* SpecAssign: the witness handed to assign, the loop's offset
                \* and its ProofValues pv
    ld,         \* SpecLoad: the hash-relation table and the fixed table as load
                \* fills them, the results of the two loaders and of load
    sl,         \* SpecLeafShape: a storage leaf key row with its two flag cells
                \* and its acc cell
    nb,         \* SpecNonceBalance: the account leaf's nonce/balance rows S and C with
                \* the cells of the key rows that their gate and lookups query
    bc,         \* the base conversion of a keccak state: the input lanes, the lanes
                \* converted so far and the cells assigned for them
    sr          \* the rows of an account leaf and of the top of its storage trie, the
                \* hash-relation table of the run and the verdict on the rows

accVars == <<row, acc, mult, fold>>

vars == <<row, acc, mult, fold, ne, ext, chain, trace, node, asg, ld, sl, nb, bc, sr>>

---------------------------------------------------------------------------
(* Bounds of the model *)

\* longest witness row that the accumulator component folds
MaxLen == 3

\* number of hash-output columns of a row (32 in param.rs); a key holds
\* HASH_WIDTH bytes, that is 2 * HASH_WIDTH nibbles
HASH_WIDTH == 3

---------------------------------------------------------------------------
(* The field F: FieldExt *)

FieldModulus == 257

Field == 0..(FieldModulus - 1)

FAdd(a, b) == (a + b) % FieldModulus

FSub(a, b) == (a - b) % FieldModulus

FMul(a, b) == (a * b) % FieldModulus

RECURSIVE FPow(_, _)
FPow(a, n) == IF n = 0 THEN 1 ELSE FMul(a, FPow(a, n - 1))

\* Field::invert: None for zero, otherwise the multiplicative inverse
FInv(a) ==
    IF a % FieldModulus = 0 THEN 0
    ELSE CHOOSE x \in Field : FMul(a % FieldModulus, x) = 1

\* F::from(byte as u64)
FFrom(b) == b % FieldModulus

\* the randomness of the RLC: acc_r = F::one() + F::one()
acc_r == 2

---------------------------------------------------------------------------
(* mpt.rs compute_acc_and_mult and helpers.rs bytes_into_rlc.  Sequences    *)
(* are 1-indexed: the code's row[k] is row[k + 1] here.                    *)

\* a fold that forgets to advance the multiplier
RECURSIVE compute_acc_and_mult_mut(_, _, _, _, _)
compute_acc_and_mult_mut(r, a, m, start, len) ==
    IF len = 0 THEN <<a, m>>
    ELSE compute_acc_and_mult_mut(r, FAdd(a, FMul(FFrom(r[start + 1]), m)),
                                  m, start + 1, len - 1)


RECURSIVE compute_acc_and_mult(_, _, _, _, _)
compute_acc_and_mult(r, a, m, start, len) ==
    IF len = 0 THEN <<a, m>>
    ELSE compute_acc_and_mult(r, FAdd(a, FMul(FFrom(r[start + 1]), m)),
                              FMul(m, acc_r), start + 1, len - 1)

RECURSIVE bytes_into_rlc_loop(_, _, _, _)
bytes_into_rlc_loop(message, i, rlc, m) ==
    IF i = Len(message) THEN rlc
    ELSE bytes_into_rlc_loop(message, i + 1,
                             FAdd(rlc, FMul(FFrom(message[i + 1]), m)),
                             FMul(m, acc_r))

bytes_into_rlc(message) == bytes_into_rlc_loop(message, 0, 0, 1)

---------------------------------------------------------------------------
(* The layout of a witness row (param.rs): s_rlp1, s_rlp2, s_bytes[0..],   *)
(* c_rlp1, c_rlp2, c_bytes[0..].                                           *)

RLP_NUM == 2

C_RLP_START == RLP_NUM + HASH_WIDTH

C_START == RLP_NUM + HASH_WIDTH + RLP_NUM

WITNESS_ROW_WIDTH == 2 * HASH_WIDTH + 2 * RLP_NUM

\* MptWitnessRow::get_byte
get_byte(r, k) == r[k + 1]

s_rlp1(r) == get_byte(r, 0)

s_rlp2(r) == get_byte(r, 1)

s_bytes(r, ind) == get_byte(r, RLP_NUM + ind)

c_rlp1(r) == get_byte(r, C_RLP_START)

c_rlp2(r) == get_byte(r, C_RLP_START + 1)

c_bytes(r, ind) == get_byte(r, C_START + ind)

\* a row holding the bytes of s, padded with zeros to the row width
PadRow(s) == [k \in 1..WITNESS_ROW_WIDTH |-> IF k <= Len(s) THEN s[k] ELSE 0]

NonExistingIdle == ne = [phase |-> "idle"]

ExtIdle == ext = [phase |-> "idle"]

RootIdle == chain = [phase |-> "idle"]

TraceIdle == trace = [phase |-> "idle"]

NodeIdle == node = [phase |-> "idle"]

AssignIdle == asg = [phase |-> "idle"]

LoadIdle == ld = [phase |-> "idle"]

LeafShapeIdle == sl = [phase |-> "idle"]

NonceBalanceIdle == nb = [phase |-> "idle"]

BaseConversionIdle == bc = [phase |-> "idle"]

StorageRootIdle == sr = [phase |-> "idle"]

---------------------------------------------------------------------------
(* SpecAcc: a caller folds consecutive windows of one row into (acc, mult) *)

\* byte values the rows of this component are drawn from
ByteSample == {0, 1, 128, 255}

RowsUpTo(n) == UNION {[1..k -> ByteSample] : k \in 0..n}

AccIdle ==
    /\ row = <<>>
    /\ acc = 0
    /\ mult = 1
    /\ fold = [acc0 |-> 0, mult0 |-> 1, start0 |-> 0, windows |-> <<>>]

InitAcc ==
    /\ NonExistingIdle
    /\ ExtIdle
    /\ RootIdle
    /\ TraceIdle
    /\ NodeIdle
    /\ AssignIdle
    /\ LoadIdle
    /\ LeafShapeIdle
    /\ NonceBalanceIdle
    /\ BaseConversionIdle
    /\ StorageRootIdle
    /\ row \in RowsUpTo(MaxLen)
    /\ \E a0 \in {0, 7}, m0 \in {1, 3}, s0 \in 0..MaxLen :
          /\ s0 <= Len(row)
          /\ acc = a0
          /\ mult = m0
          /\ fold = [acc0 |-> a0, mult0 |-> m0, start0 |-> s0, windows |-> <<>>]

RECURSIVE SumSeq(_)
SumSeq(s) == IF s = <<>> THEN 0 ELSE Head(s) + SumSeq(Tail(s))

\* one call self.compute_acc_and_mult(row, &mut acc, &mut mult, start, len),
\* start being where the previous window ended
FoldWindow(len) ==
    LET start == fold.start0 + SumSeq(fold.windows)
        res == compute_acc_and_mult(row, acc, mult, start, len)
    IN /\ Len(fold.windows) < MaxLen
       /\ start + len <= Len(row)
       /\ acc' = res[1]
       /\ mult' = res[2]
       /\ fold' = [fold EXCEPT !.windows = Append(@, len)]
       /\ UNCHANGED row

NextAcc == (\E len \in 0..MaxLen : FoldWindow(len)) /\ UNCHANGED <<ne, ext, chain, trace, node, asg, ld, sl, nb, bc, sr>>

SpecAcc == InitAcc /\ [][NextAcc]_vars

---------------------------------------------------------------------------
(* C8 *)

\* the closed form, term by term
RlcTerm(r, start, m0, i) == FMul(FMul(FFrom(r[start + i + 1]), m0), FPow(acc_r, i))

RECURSIVE ClosedSum(_, _, _, _)
ClosedSum(r, start, m0, len) ==
    IF len = 0 THEN 0
    ELSE FAdd(ClosedSum(r, start, m0, len - 1), RlcTerm(r, start, m0, len - 1))

FoldTotal == SumSeq(fold.windows)

C8_StateOk ==
    /\ acc = FAdd(fold.acc0, ClosedSum(row, fold.start0, fold.mult0, FoldTotal))
    /\ mult = FMul(fold.mult0, FPow(acc_r, FoldTotal))
    /\ (fold.acc0 = 0 /\ fold.mult0 = 1) =>
          acc = bytes_into_rlc(SubSeq(row, fold.start0 + 1, fold.start0 + FoldTotal))

\* C8: after any sequence of consecutive calls of compute_acc_and_mult the
\* accumulator is acc0 + sum of row[start+i] * mult0 * r^i over everything folded
\* and the multiplier is mult0 * r^(total length) (so two consecutive windows
\* equal one call on the concatenation); from (0, 1) the accumulator equals
\* bytes_into_rlc of the folded bytes; a call changes nothing but acc and mult.
C8_ClosedForm ==
    /\ []C8_StateOk
    /\ [][row' = row /\ fold'.acc0 = fold.acc0 /\ fold'.mult0 = fold.mult0]_vars

\* two non-empty windows have been folded from (0, 1)
C8_Witness ==
    /\ Len(fold.windows) = 2
    /\ fold.windows[1] > 0 /\ fold.windows[2] > 0
    /\ fold.acc0 = 0 /\ fold.mult0 = 1
    /\ acc # 0

---------------------------------------------------------------------------
(* SpecNonExisting: the ACCOUNT_NON_EXISTING row of a non-existing-account *)
(* proof and the account-leaf key row above it (account_non_existing.rs).  *)
(* ne.row_prev is the key row of the leaf found in the trie, ne.row the    *)
(* row with the enquired address; s_rlp1 of ne.row is is_wrong_leaf.  The  *)
(* cells sum (accs.key.rlc), sum_prev (accs.key.mult) and diff_inv         *)
(* (accs.acc_s.rlc) are written by assign or by a prover of its own mind.  *)

\* the loop "for ind in 1..HASH_WIDTH" of add_wrong_leaf_constraints over one
\* row, followed by the c_rlp1 and c_rlp2 terms
RECURSIVE wrong_leaf_sum_loop(_, _, _, _)
wrong_leaf_sum_loop(r, ind, sum, m) ==
    IF ind = HASH_WIDTH THEN <<sum, m>>
    ELSE wrong_leaf_sum_loop(r, ind + 1, FAdd(sum, FMul(FFrom(s_bytes(r, ind)), m)),
                             FMul(m, acc_r))

sum_check(r) ==
    LET l == wrong_leaf_sum_loop(r, 1, 0, acc_r)
        s1 == FAdd(l[1], FMul(FFrom(c_rlp1(r)), l[2]))
    IN FAdd(s1, FMul(FFrom(c_rlp2(r)), FMul(l[2], acc_r)))

\* "Address of a leaf is different than address being inquired" with the
\* difference replaced by a sum
address_is_different_mut(q_enable, correct_level, is_wrong_leaf, sum, sum_prev, diff_inv) ==
    FMul(FMul(FMul(q_enable, correct_level), is_wrong_leaf),
         FSub(1, FMul(FAdd(sum, sum_prev), diff_inv)))

\* "Address of a leaf is different than address being inquired"
address_is_different(q_enable, correct_level, is_wrong_leaf, sum, sum_prev, diff_inv) ==
    FMul(FMul(FMul(q_enable, correct_level), is_wrong_leaf),
         FSub(1, FMul(FSub(sum, sum_prev), diff_inv)))

\* the three expressions add_wrong_leaf_constraints pushes; the gate holds
\* when each is zero
add_wrong_leaf_constraints(q_enable, r_cur, r_prev, correct_level, is_wrong_leaf, sum, sum_prev, diff_inv) ==
    LET sel == FMul(FMul(q_enable, correct_level), is_wrong_leaf)
    IN << FMul(sel, FSub(sum, sum_check(r_cur))),
          FMul(sel, FSub(sum_prev, sum_check(r_prev))),
          address_is_different(q_enable, correct_level, is_wrong_leaf,
                               sum, sum_prev, diff_inv) >>

AllZero(cs) == \A k \in 1..Len(cs) : cs[k] = 0

\* the two gates "Non existing account proof leaf address RLC" call
\* add_wrong_leaf_constraints with correct_level = not_first_level and
\* correct_level = 1 - not_first_level
WrongLeafGates(n, sum, sum_prev, diff_inv) ==
    /\ AllZero(add_wrong_leaf_constraints(1, n.row, n.row_prev, n.not_first_level,
                                          s_rlp1(n.row), sum, sum_prev, diff_inv))
    /\ AllZero(add_wrong_leaf_constraints(1, n.row, n.row_prev, FSub(1, n.not_first_level),
                                          s_rlp1(n.row), sum, sum_prev, diff_inv))

\* an assign that inverts the difference without comparing the sums
non_existing_assign_mut(r_prev, r) ==
    LET key_len == get_byte(r_prev, 2) - 128
        sum == compute_acc_and_mult(r, 0, acc_r, 3, key_len)[1]
        sum_prev == compute_acc_and_mult(r_prev, 0, acc_r, 3, key_len)[1]
    IN [sum |-> sum, sum_prev |-> sum_prev,
        diff_inv |-> FInv(FSub(sum, sum_prev)),
        panicked |-> FSub(sum, sum_prev) = 0]

\* AccountNonExistingConfig::assign: the sums over the key_len key bytes of
\* both rows and the inverse of their difference (zero when they are equal);
\* panicked tells whether the call ends in a panic: the subtraction of 128
\* from a smaller byte, a byte read past the row, or unwrap() of the None
\* that invert gives for zero
non_existing_assign(r_prev, r) ==
    LET underflow == get_byte(r_prev, 2) < 128
        key_len == IF underflow THEN 0 ELSE get_byte(r_prev, 2) - 128
        past_row == 3 + key_len > WITNESS_ROW_WIDTH
        sum == IF past_row THEN 0 ELSE compute_acc_and_mult(r, 0, acc_r, 3, key_len)[1]
        sum_prev == IF past_row THEN 0 ELSE compute_acc_and_mult(r_prev, 0, acc_r, 3, key_len)[1]
    IN [sum |-> sum, sum_prev |-> sum_prev,
        diff_inv |-> IF sum # sum_prev THEN FInv(FSub(sum, sum_prev)) ELSE 0,
        panicked |-> underflow \/ past_row \/ (sum # sum_prev /\ FSub(sum, sum_prev) = 0)]

\* key bytes the rows of this component are drawn from
KeyByteSample == {0, 255}

\* the nibble-sized changes of one byte
NibbleDeltas == {1, 16}

KeyRow(first, key_len, key) ==
    PadRow(<<first, 0, 128 + key_len>> \o key)

\* the rows: a leaf key of key_len bytes, and an enquired key that is the same
\* or differs from it in one nibble of one byte
NonExistingInit ==
    \E key_len \in 1..(HASH_WIDTH + 1), wl \in {0, 1}, nfl \in {0, 1} :
      \E key \in [1..key_len -> KeyByteSample] :
        \E pos \in 0..key_len, d \in NibbleDeltas :
           LET key2 == [k \in 1..key_len |->
                          IF k = pos THEN (key[k] + d) % 256 ELSE key[k]]
           IN /\ (pos = 0 => d = 1)
              /\ ne = [phase |-> "rows", not_first_level |-> nfl,
                       row_prev |-> KeyRow(248, key_len, key),
                       row |-> KeyRow(wl, key_len, key2),
                       sum |-> 0, sum_prev |-> 0, diff_inv |-> 0]

InitNonExisting == AccIdle /\ ExtIdle /\ RootIdle /\ NodeIdle /\ AssignIdle /\ LoadIdle /\ LeafShapeIdle /\ NonceBalanceIdle /\ BaseConversionIdle /\ StorageRootIdle /\ TraceIdle /\ NonExistingInit

\* AccountNonExistingConfig::assign writes the three cells
NonExistingAssign ==
    /\ ne.phase = "rows"
    /\ LET a == non_existing_assign(ne.row_prev, ne.row)
       IN ne' = [ne EXCEPT !.phase = "assigned", !.sum = a.sum,
                           !.sum_prev = a.sum_prev, !.diff_inv = a.diff_inv]
    /\ UNCHANGED <<accVars, ext, chain, trace, node, asg, ld, sl, nb, bc, sr>>

\* a prover overwrites the inverse witness with a value of its choice
ProverSetsDiffInv(d) ==
    /\ ne.phase = "assigned"
    /\ ne' = [ne EXCEPT !.phase = "forged", !.diff_inv = d]
    /\ UNCHANGED <<accVars, ext, chain, trace, node, asg, ld, sl, nb, bc, sr>>

NextNonExisting ==
    \/ NonExistingAssign
    \/ \E d \in Field : ProverSetsDiffInv(d)

SpecNonExisting == InitNonExisting /\ [][NextNonExisting]_vars

---------------------------------------------------------------------------
(* C3 *)

NeAssigned == ne.phase \in {"assigned", "forged"}

NeWrongLeaf == NeAssigned /\ s_rlp1(ne.row) = 1

\* the key RLCs of the two rows, as the gate computes them
NeSameKeyRlc == sum_check(ne.row) = sum_check(ne.row_prev)

\* C3: in a wrong-leaf proof (is_wrong_leaf = 1), when the key RLC of the wrong
\* leaf equals that of the enquired address the gates hold for no value of
\* diff_inv (whatever sum and sum_prev hold, and in particular for the cells as
\* they are); when the key RLCs differ, the cells written by assign, diff_inv
\* being the inverse of the difference, satisfy the gates.
C3_WrongLeaf ==
    NeWrongLeaf =>
       /\ NeSameKeyRlc => ~WrongLeafGates(ne, ne.sum, ne.sum_prev, ne.diff_inv)
       /\ (NeSameKeyRlc /\ ne.phase = "assigned") =>
             \A d \in Field :
                ~WrongLeafGates(ne, sum_check(ne.row), sum_check(ne.row_prev), d)
       /\ (~NeSameKeyRlc /\ ne.phase = "assigned") =>
             /\ ne.diff_inv = FInv(FSub(sum_check(ne.row), sum_check(ne.row_prev)))
             /\ WrongLeafGates(ne, ne.sum, ne.sum_prev, ne.diff_inv)
             /\ \A lvl \in {0, 1} :
                   address_is_different(1, lvl, 1, ne.sum, ne.sum_prev, ne.diff_inv) = 0

\* a wrong-leaf proof whose two keys differ in one nibble has been assigned
C3_Witness ==
    /\ NeWrongLeaf
    /\ ne.phase = "assigned"
    /\ ~NeSameKeyRlc
    /\ ne.diff_inv # 0
    /\ WrongLeafGates(ne, ne.sum, ne.sum_prev, ne.diff_inv)

---------------------------------------------------------------------------
(* Extension-node rows.  An extension node is the RLP list of its          *)
(* compact-encoded nibbles and of its branch (the branch's hash, or the    *)
(* branch itself when that is shorter than a hash).  The S and the C row   *)
(* carry the same s_rlp1, s_rlp2 and key bytes; each carries the branch of *)
(* its own proof in c_rlp2 and c_bytes.                                    *)

RECURSIVE NibblePairs(_)
NibblePairs(nibs) ==
    IF Len(nibs) < 2 THEN <<>>
    ELSE <<16 * nibs[1] + nibs[2]>> \o NibblePairs(SubSeq(nibs, 3, Len(nibs)))

\* hexToCompact of an extension segment: odd -> 16 + first nibble, even -> 0
ExtCompact(nibs) ==
    IF Len(nibs) % 2 = 1 THEN <<16 + nibs[1]>> \o NibblePairs(Tail(nibs))
    ELSE <<0>> \o NibblePairs(nibs)

\* the c side of a row: a hashed branch is 160 followed by the hash, a
\* non-hashed one is 0 followed by the branch's own bytes
CSide(hashed, bytes) == <<0, IF hashed THEN 160 ELSE 0>> \o bytes

\* the length of a hash with its length byte
c33 == 33

\* number of bytes the branch takes in the extension node (rows are narrower
\* here than the nodes they stand for: a row keeps HASH_WIDTH bytes of the
\* hash, the lengths are those of the node)
BranchLenInExt(hashed, bytes) == IF hashed THEN c33 ELSE (bytes[1] - 192) + 1

\* longLen is 0 for a node of at most 55 bytes; for a longer node it is the
\* node's length, which follows the leading 248 (rows are narrower here than
\* the nodes they stand for, so the length is given, not counted)
ExtRow(nibs, longLen, hashed, bytes) ==
    LET key == ExtCompact(nibs)
        blen == BranchLenInExt(hashed, bytes)
        spart == IF Len(nibs) = 1 THEN <<192 + 1 + blen, key[1]>>
                 ELSE IF longLen = 0
                      THEN <<192 + Len(key) + 1 + blen, 128 + Len(key)>> \o key
                      ELSE <<248, longLen, 128 + Len(key)>> \o key
    IN [k \in 1..WITNESS_ROW_WIDTH |->
          IF k <= Len(spart) THEN spart[k]
          ELSE IF k > C_RLP_START /\ k - C_RLP_START <= Len(bytes) + 2
               THEN CSide(hashed, bytes)[k - C_RLP_START]
               ELSE 0]

---------------------------------------------------------------------------
(* helpers.rs compute_rlc and the gate "Extension node RLC"                *)

\* how many elements the array of powers of r has (R_TABLE_LEN = HASH_WIDTH)
R_TABLE_LEN == HASH_WIDTH

\* r_table[k] = r^(k+1), built by repeated multiplication in configure
r_table(k) == FPow(acc_r, k + 1)

RECURSIVE compute_rlc_loop(_, _, _, _, _, _)
compute_rlc_loop(cells, i, rind, r_wrapped, m, rlc) ==
    IF i > Len(cells) THEN rlc
    ELSE LET s == FFrom(cells[i])
             term == IF ~r_wrapped THEN FMul(FMul(s, r_table(rind)), m)
                     ELSE FMul(FMul(FMul(s, r_table(rind)), r_table(R_TABLE_LEN - 1)), m)
         IN IF rind = R_TABLE_LEN - 1
            THEN compute_rlc_loop(cells, i + 1, 0, TRUE, m, FAdd(rlc, term))
            ELSE compute_rlc_loop(cells, i + 1, rind + 1, r_wrapped, m, FAdd(rlc, term))

compute_rlc(cells, rind, m) == compute_rlc_loop(cells, 1, rind, FALSE, m, 0)

s_main_bytes(r) == [i \in 1..HASH_WIDTH |-> s_bytes(r, i - 1)]

c_main_bytes(r) == [i \in 1..HASH_WIDTH |-> c_bytes(r, i - 1)]

\* is_branch_hashed = c_rlp2 * c160_inv
is_branch_hashed(r) == FMul(FFrom(c_rlp2(r)), FInv(160))

\* the four expressions of the gate: "s_main RLC", "c_rlp2 = 160", "Hashed
\* extension node RLC", "Non-hashed extension node RLC".  r_s is the row the
\* s part is read from (the S row for both rows), r_cur the row of the gate;
\* acc_s is read where the s part is, acc_mult_s and acc_c in r_cur
ExtensionNodeRLC(r_s, r_cur, q_enable, is_branch_init_prev, acc_s, acc_mult_s, acc_c) ==
    LET sel == FMul(q_enable, FSub(1, is_branch_init_prev))
        rlc_s == FAdd(FAdd(FFrom(s_rlp1(r_s)), FMul(FFrom(s_rlp2(r_s)), r_table(0))),
                      compute_rlc(s_main_bytes(r_s), 1, 1))
        rlc_h == FAdd(FAdd(acc_s, FMul(FFrom(c_rlp2(r_cur)), acc_mult_s)),
                      compute_rlc(c_main_bytes(r_cur), 0, acc_mult_s))
        rlc_n == FAdd(FAdd(acc_s, FMul(FFrom(c_bytes(r_cur, 0)), acc_mult_s)),
                      compute_rlc(Tail(c_main_bytes(r_cur)), 0, acc_mult_s))
    IN << FMul(sel, FSub(rlc_s, acc_s)),
          FMul(FMul(q_enable, is_branch_hashed(r_cur)), FSub(FFrom(c_rlp2(r_cur)), 160)),
          FMul(FMul(sel, is_branch_hashed(r_cur)), FSub(rlc_h, acc_c)),
          FMul(FMul(sel, FSub(1, is_branch_hashed(r_cur))), FSub(rlc_n, acc_c)) >>

---------------------------------------------------------------------------
(* SpecExt: ExtensionNodeConfig::assign on the S row, then on the C row    *)

\* a length that leaves out the two leading RLP bytes
ext_key_part_len_mut(r) ==
    IF get_byte(r, 1) <= 32 THEN 2
    ELSE IF get_byte(r, 0) < 248 THEN (get_byte(r, 1) - 128)
    ELSE (get_byte(r, 2) - 128) + 3

\* how many leading bytes of the row hold the RLP header and the key
ext_key_part_len(r) ==
    IF get_byte(r, 1) <= 32 THEN 2
    ELSE IF get_byte(r, 0) < 248 THEN (get_byte(r, 1) - 128) + 2
    ELSE (get_byte(r, 2) - 128) + 3

\* the second half of both branches of assign: acc_c continues acc_s over
\* c_rlp2 and the hash, or over the bytes of a non-hashed branch
ext_assign_c_part(r, pv) ==
    LET hashed == get_byte(r, C_RLP_START + 1) # 0
        start == IF hashed THEN C_RLP_START + 1 ELSE C_START
        len == IF hashed THEN HASH_WIDTH + 1 ELSE HASH_WIDTH
        res == compute_acc_and_mult(r, pv.acc_s, pv.acc_mult_s, start, len)
    IN [pv EXCEPT !.acc_c = res[1], !.acc_mult_c = res[2]]

\* pv after assign(row, is_s)
ext_assign(r, pv, is_s) ==
    IF is_s
    THEN LET res == compute_acc_and_mult(r, 0, 1, 0, ext_key_part_len(r))
         IN ext_assign_c_part(r, [pv EXCEPT !.acc_s = res[1], !.acc_mult_s = res[2]])
    ELSE ext_assign_c_part(r, pv)

\* assign_acc(region, pv.acc_s, pv.acc_mult_s, pv.acc_c, F::zero(), offset)
assign_acc(pv) ==
    [acc_s |-> pv.acc_s, acc_mult_s |-> pv.acc_mult_s, acc_c |-> pv.acc_c, acc_mult_c |-> 0]

\* nibble values the segments are drawn from
NibbleSample == {0, 15}

\* hash bytes the rows are drawn from
HashSample == {[i \in 1..HASH_WIDTH |-> 1], [i \in 1..HASH_WIDTH |-> 255 - i]}

\* branches shorter than a hash, as they stand in an extension node: the
\* first bytes of a branch of 31 bytes
RawBranchSample == {<<192 + 30>> \o [i \in 1..(HASH_WIDTH - 1) |-> 128]}

BranchRefs == ({TRUE} \X HashSample) \cup ({FALSE} \X RawBranchSample)

\* the segments that fit the row: the key takes at most HASH_WIDTH bytes, one
\* of them the length byte when the node is longer than 55
ExtSegments(longLen) ==
    LET maxKey == IF longLen # 0 THEN HASH_WIDTH - 1 ELSE HASH_WIDTH
    IN UNION {[1..n -> NibbleSample] : n \in 1..(2 * maxKey - 1)}

\* lengths of nodes longer than 55 bytes
LongLenSample == {56, 66}

ExtRowsInit ==
    \E longLen \in {0} \cup LongLenSample, bs \in BranchRefs, b_c \in BranchRefs, g \in {0, 5} :
      \E nibs \in ExtSegments(longLen) :
         /\ (Len(nibs) = 1 => longLen = 0)
         /\ ext = [phase |-> "rows",
                   nibbles |-> nibs,
                   row_s |-> ExtRow(nibs, longLen, bs[1], bs[2]),
                   row_c |-> ExtRow(nibs, longLen, b_c[1], b_c[2]),
                   pv |-> [acc_s |-> g, acc_mult_s |-> g, acc_c |-> g, acc_mult_c |-> g],
                   cells_s |-> assign_acc([acc_s |-> 0, acc_mult_s |-> 0, acc_c |-> 0]),
                   cells_c |-> assign_acc([acc_s |-> 0, acc_mult_s |-> 0, acc_c |-> 0])]

InitExt == AccIdle /\ NonExistingIdle /\ RootIdle /\ NodeIdle /\ AssignIdle /\ LoadIdle /\ LeafShapeIdle /\ NonceBalanceIdle /\ BaseConversionIdle /\ StorageRootIdle /\ TraceIdle /\ ExtRowsInit

ExtAssignS ==
    /\ ext.phase = "rows"
    /\ LET pv == ext_assign(ext.row_s, ext.pv, TRUE)
       IN ext' = [ext EXCEPT !.phase = "s_done", !.pv = pv, !.cells_s = assign_acc(pv)]
    /\ UNCHANGED <<accVars, ne, chain, trace, node, asg, ld, sl, nb, bc, sr>>

ExtAssignC ==
    /\ ext.phase = "s_done"
    /\ LET pv == ext_assign(ext.row_c, ext.pv, FALSE)
       IN ext' = [ext EXCEPT !.phase = "c_done", !.pv = pv, !.cells_c = assign_acc(pv)]
    /\ UNCHANGED <<accVars, ne, chain, trace, node, asg, ld, sl, nb, bc, sr>>

NextExt == ExtAssignS \/ ExtAssignC

SpecExt == InitExt /\ [][NextExt]_vars

---------------------------------------------------------------------------
(* C5 *)

\* the gate on the S row: everything is read in that row
ExtGateS ==
    AllZero(ExtensionNodeRLC(ext.row_s, ext.row_s, 1, 0, ext.cells_s.acc_s,
                             ext.cells_s.acc_mult_s, ext.cells_s.acc_c))

\* the gate on the C row: the s part and acc_s are read in the S row
ExtGateC ==
    AllZero(ExtensionNodeRLC(ext.row_s, ext.row_c, 1, 0, ext.cells_s.acc_s,
                             ext.cells_c.acc_mult_s, ext.cells_c.acc_c))

\* C5: for an extension-node row pair of a genuine proof, of any of the three
\* length shapes and with a hashed or a non-hashed branch on either side, the
\* cells written by assign satisfy the gate "Extension node RLC": on the S row
\* once it is assigned, on the C row once both are; the C row reuses the acc_s
\* and acc_mult_s of the S row and its acc_c continues from them.
C5_AssignSatisfiesGate ==
    /\ ext.phase \in {"s_done", "c_done"} => ExtGateS
    /\ ext.phase = "c_done" =>
          /\ ExtGateC
          /\ ext.cells_c.acc_s = ext.cells_s.acc_s
          /\ ext.cells_c.acc_mult_s = ext.cells_s.acc_mult_s

\* both rows of a node longer than 55 bytes are assigned, the S side with a
\* hashed branch and the C side with a non-hashed one
C5_Witness ==
    /\ ext.phase = "c_done"
    /\ s_rlp1(ext.row_s) = 248
    /\ c_rlp2(ext.row_s) = 160
    /\ c_rlp2(ext.row_c) = 0
    /\ ext.cells_c.acc_c # ext.cells_s.acc_c
    /\ ExtGateC

---------------------------------------------------------------------------
(* SpecRoot: a chain of proofs, the public-input column and the verdict of *)
(* the mock prover.  Each proof is kept as the pair of its                 *)
(* inter_start_root and inter_final_root cells (the RLC of its before- and *)
(* after-root); chain.pub_root holds the root commitments the caller hands *)
(* to the prover as the instance column.                                   *)

\* most proofs in a chain
MaxProofs == 2

\* root commitments (RLCs of root hashes) the cells are drawn from
RootSample == {3, 4, 5}

\* the assertions of the root-continuity component over the advice cells: the
\* after-root of a proof is the before-root of the next
ProofChainConstraints(proofs) ==
    \A i \in 1..(Len(proofs) - 1) : proofs[i].final_root = proofs[i + 1].start_root

\* the columns MPTConfig::configure hands to a gate, a lookup or an equality
\* constraint.  pub_root is created by meta.instance_column() and handed to
\* none of them, so no constraint reads it.
ConstrainedColumns == {"inter_start_root", "inter_final_root"}

\* what the verdict depends on: the constraints over the constrained columns
CircuitSatisfied(c) ==
    /\ ProofChainConstraints(c.proofs)
    /\ "pub_root" \in ConstrainedColumns =>
          /\ c.pub_root.start_root = c.proofs[1].start_root
          /\ c.pub_root.final_root = c.proofs[Len(c.proofs)].final_root

RootInit ==
    \E n \in 1..MaxProofs :
      \E ps \in [1..n -> [start_root : RootSample, final_root : RootSample]] :
         chain = [phase |-> "assigned", proofs |-> ps,
                  pub_root |-> [start_root |-> 0, final_root |-> 0],
                  verdict |-> "none"]

InitRoot == AccIdle /\ NonExistingIdle /\ ExtIdle /\ NodeIdle /\ AssignIdle /\ LoadIdle /\ LeafShapeIdle /\ NonceBalanceIdle /\ BaseConversionIdle /\ StorageRootIdle /\ TraceIdle /\ RootInit

\* MockProver::run(k, &circuit, vec![pub_root]): the caller supplies the
\* instance column
ProverRun(a, b) ==
    /\ chain.phase = "assigned"
    /\ chain' = [chain EXCEPT !.phase = "run",
                              !.pub_root = [start_root |-> a, final_root |-> b]]
    /\ UNCHANGED <<accVars, ne, ext, trace, node, asg, ld, sl, nb, bc, sr>>

\* prover.verify()
ProverVerify ==
    /\ chain.phase = "run"
    /\ chain' = [chain EXCEPT !.phase = "verified",
                              !.verdict = IF CircuitSatisfied(chain) THEN "accepted"
                                          ELSE "rejected"]
    /\ UNCHANGED <<accVars, ne, ext, trace, node, asg, ld, sl, nb, bc, sr>>

NextRoot ==
    \/ \E a \in RootSample, b \in RootSample : ProverRun(a, b)
    \/ ProverVerify

SpecRoot == InitRoot /\ [][NextRoot]_vars

---------------------------------------------------------------------------
(* C7 *)

\* C7: an accepted trace has the before-root of its first proof and the
\* after-root of its last proof equal to the root commitments supplied in the
\* public-input column.
C7_PublicRootsChecked ==
    chain.phase = "verified" /\ chain.verdict = "accepted" =>
       /\ chain.pub_root.start_root = chain.proofs[1].start_root
       /\ chain.pub_root.final_root = chain.proofs[Len(chain.proofs)].final_root

---------------------------------------------------------------------------
(* The gate "Branch key RLC" (branch_key.rs).  It is enabled in the first  *)
(* branch child, the row after the branch init row.  c is the record of    *)
(* the cells the gate queries, under the names the gate gives them:        *)
(* sel1_cur and sel2_cur are read in this branch's init row, sel1_prev in  *)
(* the previous branch's init row (Rotation(-20)), key_rlc_prev and        *)
(* key_rlc_mult_prev in the previous branch's first child (Rotation(-19)), *)
(* is_account_leaf_in_added_branch_prev two rows up.                       *)

\* the product of the field elements of s
RECURSIVE FProd(_)
FProd(s) == IF s = <<>> THEN 1 ELSE FMul(Head(s) % FieldModulus, FProd(Tail(s)))

\* 1 - a in the field
FNot(a) == FSub(1, a % FieldModulus)

is_extension_key_even(c) == FAdd(c.is_ext_long_even_c16, c.is_ext_long_even_c1)

is_extension_key_odd(c) == FAdd(FAdd(c.is_ext_long_odd_c16, c.is_ext_long_odd_c1), FAdd(c.is_ext_short_c16, c.is_ext_short_c1))

is_extension_node(c) == FAdd(is_extension_key_even(c), is_extension_key_odd(c))

\* a variant that weighs the nibble by 1 under sel1 as well
branch_key_rlc_mut(c) ==
    LET deeper == <<c.q_not_first, c.not_first_level, c.is_branch_init_prev, FNot(c.is_account_leaf_in_added_branch_prev), FNot(is_extension_node(c))>>
        account == <<c.q_not_first, FNot(c.not_first_level), FNot(is_extension_node(c)), c.is_branch_init_prev>>
        storage == <<c.q_not_first, c.is_account_leaf_in_added_branch_prev, FNot(is_extension_node(c)), c.is_branch_init_prev>>
        step == FMul(c.modified_node_cur, c.key_rlc_mult_prev)
    IN << FProd(deeper \o <<c.sel1_cur, FSub(FSub(c.key_rlc_cur, c.key_rlc_prev), step)>>),
          FProd(deeper \o <<c.sel2_cur, FSub(FSub(c.key_rlc_cur, c.key_rlc_prev), step)>>),
          FProd(account \o <<FSub(c.key_rlc_cur, FMul(c.modified_node_cur, 16))>>),
          FProd(storage \o <<FSub(c.key_rlc_cur, FMul(c.modified_node_cur, 16))>>) >>

\* a variant without the constraint "Key RLC sel2 not first level"
branch_key_rlc_sel2_mut(c) ==
    LET deeper == <<c.q_not_first, c.not_first_level, c.is_branch_init_prev, FNot(c.is_account_leaf_in_added_branch_prev), FNot(is_extension_node(c))>>
        account == <<c.q_not_first, FNot(c.not_first_level), FNot(is_extension_node(c)), c.is_branch_init_prev>>
        storage == <<c.q_not_first, c.is_account_leaf_in_added_branch_prev, FNot(is_extension_node(c)), c.is_branch_init_prev>>
        step == FMul(c.modified_node_cur, c.key_rlc_mult_prev)
    IN << FProd(deeper \o <<c.sel1_cur, FSub(FSub(c.key_rlc_cur, c.key_rlc_prev), FMul(16, step))>>),
          FProd(account \o <<FSub(c.key_rlc_cur, FMul(c.modified_node_cur, 16))>>),
          FProd(storage \o <<FSub(c.key_rlc_cur, FMul(c.modified_node_cur, 16))>>) >>

\* the constraints on key_rlc: "Key RLC sel1 not first level", "Key RLC sel2
\* not first level", "Account address RLC first level", "Storage key RLC
\* first level"
branch_key_rlc(c) ==
    LET deeper == <<c.q_not_first, c.not_first_level, c.is_branch_init_prev, FNot(c.is_account_leaf_in_added_branch_prev), FNot(is_extension_node(c))>>
        account == <<c.q_not_first, FNot(c.not_first_level), FNot(is_extension_node(c)), c.is_branch_init_prev>>
        storage == <<c.q_not_first, c.is_account_leaf_in_added_branch_prev, FNot(is_extension_node(c)), c.is_branch_init_prev>>
        step == FMul(c.modified_node_cur, c.key_rlc_mult_prev)
    IN << FProd(deeper \o <<c.sel1_cur, FSub(FSub(c.key_rlc_cur, c.key_rlc_prev), FMul(16, step))>>),
          FProd(deeper \o <<c.sel2_cur, FSub(FSub(c.key_rlc_cur, c.key_rlc_prev), step)>>),
          FProd(account \o <<FSub(c.key_rlc_cur, FMul(c.modified_node_cur, 16))>>),
          FProd(storage \o <<FSub(c.key_rlc_cur, FMul(c.modified_node_cur, 16))>>) >>

\* a variant whose constraint "Key RLC sel2 not first level mult" leaves the
\* multiplier as it was
branch_key_mult_mut(c) ==
    LET deeper == <<c.q_not_first, c.not_first_level, c.is_branch_init_prev, FNot(c.is_account_leaf_in_added_branch_prev), FNot(is_extension_node(c))>>
        account == <<c.q_not_first, FNot(c.not_first_level), FNot(is_extension_node(c)), c.is_branch_init_prev>>
        storage == <<c.q_not_first, c.is_account_leaf_in_added_branch_prev, FNot(is_extension_node(c)), c.is_branch_init_prev>>
    IN << FProd(deeper \o <<c.sel1_cur, FSub(c.key_rlc_mult_cur, c.key_rlc_mult_prev)>>),
          FProd(deeper \o <<c.sel2_cur, FSub(c.key_rlc_mult_cur, c.key_rlc_mult_prev)>>),
          FProd(account \o <<FSub(c.key_rlc_mult_cur, 1)>>),
          FProd(storage \o <<FSub(c.key_rlc_mult_cur, 1)>>) >>

\* the constraints on key_rlc_mult: "Key RLC sel1 not first level mult",
\* "Key RLC sel2 not first level mult", "Account address RLC mult first
\* level", "Storage key RLC first level mult"
branch_key_mult(c) ==
    LET deeper == <<c.q_not_first, c.not_first_level, c.is_branch_init_prev, FNot(c.is_account_leaf_in_added_branch_prev), FNot(is_extension_node(c))>>
        account == <<c.q_not_first, FNot(c.not_first_level), FNot(is_extension_node(c)), c.is_branch_init_prev>>
        storage == <<c.q_not_first, c.is_account_leaf_in_added_branch_prev, FNot(is_extension_node(c)), c.is_branch_init_prev>>
    IN << FProd(deeper \o <<c.sel1_cur, FSub(c.key_rlc_mult_cur, c.key_rlc_mult_prev)>>),
          FProd(deeper \o <<c.sel2_cur, FSub(c.key_rlc_mult_cur, FMul(c.key_rlc_mult_prev, acc_r))>>),
          FProd(account \o <<FSub(c.key_rlc_mult_cur, 1)>>),
          FProd(storage \o <<FSub(c.key_rlc_mult_cur, 1)>>) >>

\* "sel1 is bool", "sel2 is bool", "sel1 + sel2 = 1"
branch_key_sel_bool(c) ==
    LET on == <<c.q_not_first, c.is_branch_init_prev>>
    IN << FProd(on \o <<c.sel1_cur, FSub(c.sel1_cur, 1)>>),
          FProd(on \o <<c.sel2_cur, FSub(c.sel2_cur, 1)>>),
          FProd(on \o <<FSub(FAdd(c.sel1_cur, c.sel2_cur), 1)>>) >>

\* a variant without the constraints for a regular branch
branch_key_sel_first_level_mut(c) ==
    LET account == <<c.q_not_first, FNot(c.not_first_level)>>
        storage == <<c.q_not_first, c.is_account_leaf_in_added_branch_prev>>
    IN << FProd(account \o <<c.is_branch_init_prev, is_extension_key_even(c), FSub(c.sel1_cur, 1)>>),
          FProd(account \o <<c.is_branch_init_prev, is_extension_key_odd(c), c.sel1_cur>>),
          FProd(storage \o <<c.is_branch_init_prev, is_extension_key_even(c), FSub(c.sel1_cur, 1)>>),
          FProd(storage \o <<c.is_branch_init_prev, is_extension_key_odd(c), c.sel1_cur>>) >>

\* sel1 in the first level of the account trie and of a storage trie
branch_key_sel_first_level(c) ==
    LET account == <<c.q_not_first, FNot(c.not_first_level)>>
        storage == <<c.q_not_first, c.is_account_leaf_in_added_branch_prev>>
    IN << FProd(account \o <<FNot(is_extension_node(c)), c.is_branch_init_prev, FSub(c.sel1_cur, 1)>>),
          FProd(account \o <<c.is_branch_init_prev, is_extension_key_even(c), FSub(c.sel1_cur, 1)>>),
          FProd(account \o <<c.is_branch_init_prev, is_extension_key_odd(c), c.sel1_cur>>),
          FProd(storage \o <<FNot(is_extension_node(c)), c.is_branch_init_prev, FSub(c.sel1_cur, 1)>>),
          FProd(storage \o <<c.is_branch_init_prev, is_extension_key_even(c), FSub(c.sel1_cur, 1)>>),
          FProd(storage \o <<c.is_branch_init_prev, is_extension_key_odd(c), c.sel1_cur>>) >>

\* a variant with the even and the odd extension key the other way round
branch_key_sel_not_first_level_mut(c) ==
    LET on == <<c.q_not_first, c.not_first_level, c.is_branch_init_prev, FNot(c.is_account_leaf_in_added_branch_prev)>>
    IN << FProd(on \o <<FNot(is_extension_node(c)), FSub(FAdd(c.sel1_cur, c.sel1_prev), 1)>>),
          FProd(on \o <<is_extension_key_odd(c), FSub(FAdd(c.sel1_cur, c.sel1_prev), 1)>>),
          FProd(on \o <<is_extension_key_even(c), FSub(c.sel1_cur, c.sel1_prev)>>) >>

\* "sel1 0->1->0->...", its extension-node-even-key form and "sel1 stays the
\* same (extension odd key)"
branch_key_sel_not_first_level(c) ==
    LET on == <<c.q_not_first, c.not_first_level, c.is_branch_init_prev, FNot(c.is_account_leaf_in_added_branch_prev)>>
    IN << FProd(on \o <<FNot(is_extension_node(c)), FSub(FAdd(c.sel1_cur, c.sel1_prev), 1)>>),
          FProd(on \o <<is_extension_key_even(c), FSub(FAdd(c.sel1_cur, c.sel1_prev), 1)>>),
          FProd(on \o <<is_extension_key_odd(c), FSub(c.sel1_cur, c.sel1_prev)>>) >>

\* the sel1 and sel2 constraints of the gate, and all of its constraints
branch_key_sel(c) == branch_key_sel_bool(c) \o branch_key_sel_first_level(c) \o branch_key_sel_not_first_level(c)

BranchKeyRLC(c) == branch_key_rlc(c) \o branch_key_mult(c) \o branch_key_sel(c)

---------------------------------------------------------------------------
(* Extension nodes on the path.  The gates below are enabled in the        *)
(* extension S row of a branch; the shape selectors, sel1, sel2 and the    *)
(* nibble counter are read in the branch init row, s_rlp2 and s_bytes0 in  *)
(* the extension row itself.                                               *)

\* helpers.rs get_is_extension_node_one_nibble, and its even and long-odd kin
get_is_extension_node_one_nibble(c) == FAdd(c.is_ext_short_c16, c.is_ext_short_c1)

get_is_extension_node_even_nibbles(c) == FAdd(c.is_ext_long_even_c16, c.is_ext_long_even_c1)

get_is_extension_node_long_odd_nibbles(c) == FAdd(c.is_ext_long_odd_c16, c.is_ext_long_odd_c1)

\* a variant without "Bool check extension node selectors sum"
constrain_sel_mut(c) ==
    LET on == <<c.q_not_first, c.q_enable, FNot(0)>>
        pair(branch_sel, ext_sel) == FProd(on \o <<ext_sel, FSub(branch_sel, ext_sel)>>)
    IN << 0,
          pair(c.sel1_cur, c.is_ext_short_c16), pair(c.sel2_cur, c.is_ext_short_c1),
          pair(c.sel1_cur, c.is_ext_long_even_c16), pair(c.sel2_cur, c.is_ext_long_even_c1),
          pair(c.sel1_cur, c.is_ext_long_odd_c16), pair(c.sel2_cur, c.is_ext_long_odd_c1) >>

\* gate "Extension node selectors & RLP": the sum of the six selectors is
\* boolean, and a selector that is set agrees with the branch's c16/c1
constrain_sel(c) ==
    LET on == <<c.q_not_first, c.q_enable, FNot(0)>>
        total == is_extension_node(c)
        pair(branch_sel, ext_sel) == FProd(on \o <<ext_sel, FSub(branch_sel, ext_sel)>>)
    IN << FProd(on \o <<total, FSub(1, total)>>),
          pair(c.sel1_cur, c.is_ext_short_c16), pair(c.sel2_cur, c.is_ext_short_c1),
          pair(c.sel1_cur, c.is_ext_long_even_c16), pair(c.sel2_cur, c.is_ext_long_even_c1),
          pair(c.sel1_cur, c.is_ext_long_odd_c16), pair(c.sel2_cur, c.is_ext_long_odd_c1) >>

\* a variant that takes the compact key's first byte of an even segment for
\* a byte of nibbles
ext_nibbles_count_mut(c) ==
    LET on == <<c.q_not_first, c.q_enable>>
        prev == FMul(c.not_first_level, FMul(FNot(c.is_account_leaf_in_added_branch_prev), c.nibbles_count_prev))
        grown(num_nibbles) == FSub(FSub(FSub(c.nibbles_count_cur, prev), num_nibbles), 1)
        even(len_byte) == FMul(FSub(len_byte, 128), 2)
        odd(len_byte) == FSub(FMul(FSub(len_byte, 128), 2), 1)
    IN << FProd(on \o <<get_is_extension_node_one_nibble(c), FSub(FSub(FSub(c.nibbles_count_cur, prev), 1), 1)>>),
          FProd(on \o <<get_is_extension_node_even_nibbles(c), FNot(c.is_ext_longer_than_55), grown(even(c.s_rlp2))>>),
          FProd(on \o <<get_is_extension_node_long_odd_nibbles(c), FNot(c.is_ext_longer_than_55), grown(odd(c.s_rlp2))>>),
          FProd(on \o <<get_is_extension_node_even_nibbles(c), c.is_ext_longer_than_55, grown(even(c.s_bytes0))>>),
          FProd(on \o <<get_is_extension_node_long_odd_nibbles(c), c.is_ext_longer_than_55, grown(odd(c.s_bytes0))>>) >>

\* a variant whose one-nibble case leaves out the branch's own nibble
ext_nibbles_count_short_mut(c) ==
    LET on == <<c.q_not_first, c.q_enable>>
        prev == FMul(c.not_first_level, FMul(FNot(c.is_account_leaf_in_added_branch_prev), c.nibbles_count_prev))
        grown(num_nibbles) == FSub(FSub(FSub(c.nibbles_count_cur, prev), num_nibbles), 1)
        even(len_byte) == FMul(FSub(FSub(len_byte, 128), 1), 2)
        odd(len_byte) == FSub(FMul(FSub(len_byte, 128), 2), 1)
    IN << FProd(on \o <<get_is_extension_node_one_nibble(c), FSub(FSub(c.nibbles_count_cur, prev), 1)>>),
          FProd(on \o <<get_is_extension_node_even_nibbles(c), FNot(c.is_ext_longer_than_55), grown(even(c.s_rlp2))>>),
          FProd(on \o <<get_is_extension_node_long_odd_nibbles(c), FNot(c.is_ext_longer_than_55), grown(odd(c.s_rlp2))>>),
          FProd(on \o <<get_is_extension_node_even_nibbles(c), c.is_ext_longer_than_55, grown(even(c.s_bytes0))>>),
          FProd(on \o <<get_is_extension_node_long_odd_nibbles(c), c.is_ext_longer_than_55, grown(odd(c.s_bytes0))>>) >>

\* gate "Extension node number of nibbles": the counter grows by the
\* segment's nibbles, counted from the length byte of the compact key, and by
\* one for the branch; the previous counter is taken as 0 in the first level
\* of the account trie and of a storage trie
ext_nibbles_count(c) ==
    LET on == <<c.q_not_first, c.q_enable>>
        prev == FMul(c.not_first_level, FMul(FNot(c.is_account_leaf_in_added_branch_prev), c.nibbles_count_prev))
        grown(num_nibbles) == FSub(FSub(FSub(c.nibbles_count_cur, prev), num_nibbles), 1)
        even(len_byte) == FMul(FSub(FSub(len_byte, 128), 1), 2)
        odd(len_byte) == FSub(FMul(FSub(len_byte, 128), 2), 1)
    IN << FProd(on \o <<get_is_extension_node_one_nibble(c), FSub(FSub(FSub(c.nibbles_count_cur, prev), 1), 1)>>),
          FProd(on \o <<get_is_extension_node_even_nibbles(c), FNot(c.is_ext_longer_than_55), grown(even(c.s_rlp2))>>),
          FProd(on \o <<get_is_extension_node_long_odd_nibbles(c), FNot(c.is_ext_longer_than_55), grown(odd(c.s_rlp2))>>),
          FProd(on \o <<get_is_extension_node_even_nibbles(c), c.is_ext_longer_than_55, grown(even(c.s_bytes0))>>),
          FProd(on \o <<get_is_extension_node_long_odd_nibbles(c), c.is_ext_longer_than_55, grown(odd(c.s_bytes0))>>) >>

\* branch.rs (not part of the sources at hand; after the note in the gate
\* above): for a regular branch the counter grows by one
branch_nibbles_count(c) ==
    LET prev == FMul(c.not_first_level, FMul(FNot(c.is_account_leaf_in_added_branch_prev), c.nibbles_count_prev))
    IN << FProd(<<c.q_not_first, c.is_branch_init_prev, FNot(is_extension_node(c)), FSub(FSub(c.nibbles_count_cur, prev), 1)>>) >>

\* folding nibbles into (key_rlc, key_rlc_mult): a nibble under c16 is
\* weighed by 16 and leaves the multiplier, a nibble under c1 is weighed by 1
\* and advances the multiplier by r
RECURSIVE KeyFold(_, _, _, _)
KeyFold(rlc, m, nibs, c16) ==
    IF nibs = <<>> THEN <<rlc, m>>
    ELSE IF c16 THEN KeyFold(FAdd(rlc, FMul(FMul(16, Head(nibs)), m)), m, Tail(nibs), FALSE)
         ELSE KeyFold(FAdd(rlc, FMul(Head(nibs), m)), FMul(m, acc_r), Tail(nibs), TRUE)

\* extension_node_key.rs (not part of the sources at hand): the key RLC and
\* its multiplier of a branch under an extension node continue the previous
\* level's (0 and 1 in a first level) over the segment's nibbles and
\* modified_node, the last of them weighed as the branch's c16/c1 selector
\* says
extension_node_key(c, seg) ==
    LET first == FMul(c.not_first_level, FNot(c.is_account_leaf_in_added_branch_prev))
        rlc0 == FMul(first, c.key_rlc_prev)
        mult0 == FAdd(FMul(first, c.key_rlc_mult_prev), FNot(first))
        branch_c16 == FAdd(FAdd(c.is_ext_short_c16, c.is_ext_long_even_c16), c.is_ext_long_odd_c16)
        seg_c16 == (branch_c16 = 1) = (Len(seg) % 2 = 0)
        end == KeyFold(rlc0, mult0, Append(seg, c.modified_node_cur), seg_c16)
    IN [rlc |-> <<FMul(is_extension_node(c), FSub(c.key_rlc_cur, end[1]))>>,
        mult |-> <<FMul(is_extension_node(c), FSub(c.key_rlc_mult_cur, end[2]))>>]

---------------------------------------------------------------------------
(* The gates of the storage leaf key row (leaf_key.rs).  l is the record   *)
(* of the cells they query: the row's bytes, flag1 and flag2               *)
(* (s_mod_node_hash_rlc, c_mod_node_hash_rlc), key_rlc, key_rlc_prev and   *)
(* key_rlc_mult_prev in the row itself; key_rlc_acc_start, key_mult_start, *)
(* sel1, sel2 and is_branch_placeholder in the branch above the leaf;      *)
(* key_rlc_prev_branch, key_rlc_mult_prev_branch, sel1_above and           *)
(* sel2_above in the branch above that one.                                *)

\* the bytes s_main.bytes[ind..] weighed by r_table[ind - off]
RECURSIVE leaf_key_loop(_, _, _, _)
leaf_key_loop(r, ind, off, key_mult) ==
    IF ind >= HASH_WIDTH THEN 0
    ELSE FAdd(FMul(FMul(s_bytes(r, ind), key_mult), r_table(ind - off)), leaf_key_loop(r, ind + 1, off, key_mult))

\* key_mult: key_mult_start * r if sel1, key_mult_start if sel2
leaf_key_mult(key_mult_start, sel1, sel2) == FAdd(FProd(<<key_mult_start, r_table(0), sel1>>), FMul(key_mult_start, sel2))

\* key_rlc_acc_short: the key starts at s_main.bytes[0]
key_rlc_acc_short(r, key_rlc_acc_start, key_mult_start, sel1, sel2) ==
    LET key_mult == leaf_key_mult(key_mult_start, sel1, sel2)
        nibble == FAdd(key_rlc_acc_start, FProd(<<FSub(s_bytes(r, 0), 48), key_mult_start, sel1>>))
    IN FAdd(FAdd(FAdd(nibble, FMul(s_bytes(r, 1), key_mult)), leaf_key_loop(r, 2, 2, key_mult)), FMul(FMul(c_rlp1(r), key_mult), r_table(HASH_WIDTH - 2)))

\* key_rlc_acc_long: the key starts at s_main.bytes[1]
key_rlc_acc_long(r, key_rlc_acc_start, key_mult_start, sel1, sel2) ==
    LET key_mult == leaf_key_mult(key_mult_start, sel1, sel2)
        nibble == FAdd(key_rlc_acc_start, FProd(<<FSub(s_bytes(r, 1), 48), key_mult_start, sel1>>))
        upto_c_rlp1 == FAdd(FAdd(FAdd(nibble, FMul(s_bytes(r, 2), key_mult)), leaf_key_loop(r, 3, 3, key_mult)), FMul(FMul(c_rlp1(r), key_mult), r_table(HASH_WIDTH - 3)))
    IN FAdd(upto_c_rlp1, FMul(FMul(c_rlp2(r), key_mult), r_table(HASH_WIDTH - 2)))

\* gate "Storage leaf RLC", the constraints on the flags
leaf_flags(l) ==
    LET last_level == FMul(l.flag1, l.flag2)
        is_long == FMul(l.flag1, FNot(l.flag2))
    IN << FProd(<<l.q_enable, is_long, FSub(s_rlp1(l.row), 248)>>),
          FProd(<<l.q_enable, last_level, FSub(s_rlp2(l.row), 32)>>),
          FProd(<<l.q_enable, l.flag1, FNot(l.flag1)>>),
          FProd(<<l.q_enable, l.flag2, FNot(l.flag2)>>),
          FProd(<<l.q_enable, FNot(l.flag1), FNot(l.flag2)>>) >>

\* gate "Storage leaf key RLC (leaf not in first level, branch not placeholder)"
leaf_key_rlc(l) ==
    LET last_level == FMul(l.flag1, l.flag2)
        is_long == FMul(l.flag1, FNot(l.flag2))
        is_short == FMul(FNot(l.flag1), l.flag2)
        on == <<l.q_enable, FNot(l.is_branch_placeholder), FNot(l.is_leaf_in_first_level)>>
        short == key_rlc_acc_short(l.row, l.key_rlc_acc_start, l.key_mult_start, l.sel1, l.sel2)
        long == key_rlc_acc_long(l.row, l.key_rlc_acc_start, l.key_mult_start, l.sel1, l.sel2)
    IN << FProd(on \o <<FSub(s_bytes(l.row, 0), 32), l.sel2, is_short>>),
          FProd(on \o <<FSub(short, l.key_rlc), is_short>>),
          FProd(on \o <<FSub(s_bytes(l.row, 1), 32), l.sel2, is_long>>),
          FProd(on \o <<FSub(long, l.key_rlc), is_long>>),
          FProd(on \o <<FSub(l.key_rlc_acc_start, l.key_rlc), last_level>>) >>

\* gate "Storage leaf key RLC (leaf in first level)": the key RLC starts at 0
\* with multiplier 1 and no nibble ahead of the key's bytes
leaf_key_rlc_first_level(l) ==
    LET is_long == l.flag1
        is_short == l.flag2
        on == <<l.q_enable, l.is_leaf_in_first_level>>
        short == key_rlc_acc_short(l.row, 0, 1, 0, 1)
        long == key_rlc_acc_long(l.row, 0, 1, 0, 1)
    IN << FProd(on \o <<FSub(s_bytes(l.row, 0), 32), is_short>>),
          FProd(on \o <<FSub(short, l.key_rlc), is_short>>),
          FProd(on \o <<FSub(s_bytes(l.row, 1), 32), is_long>>),
          FProd(on \o <<FSub(long, l.key_rlc), is_long>>) >>

\* a variant that takes the cells of the branch right above the leaf
previous_level_rlc_mut(l) ==
    << FProd(<<l.q_enable, FSub(l.key_rlc_prev, l.key_rlc_acc_start), FNot(l.is_leaf_in_first_level)>>),
       FProd(<<l.q_enable, FSub(l.key_rlc_mult_prev, l.key_mult_start), FNot(l.is_leaf_in_first_level)>>) >>

\* gate "Previous level RLC": key_rlc_prev and key_rlc_mult_prev hold the key
\* RLC and multiplier of the branch above the one right above the leaf, or 0
\* and 1 when the latter is in the first storage level
previous_level_rlc(l) ==
    LET key_rlc_mult_prev_level == FAdd(FMul(FNot(l.is_first_storage_level), l.key_rlc_mult_prev_branch), l.is_first_storage_level)
        key_rlc_prev_level == FMul(FNot(l.is_first_storage_level), l.key_rlc_prev_branch)
    IN << FProd(<<l.q_enable, FSub(l.key_rlc_prev, key_rlc_prev_level), FNot(l.is_leaf_in_first_level)>>),
          FProd(<<l.q_enable, FSub(l.key_rlc_mult_prev, key_rlc_mult_prev_level), FNot(l.is_leaf_in_first_level)>>) >>

\* gate "Storage leaf key RLC (after placeholder)"
leaf_key_rlc_after_placeholder(l) ==
    LET is_long == l.flag1
        is_short == l.flag2
        key_rlc_acc_start == FMul(l.key_rlc_prev, FNot(l.is_first_storage_level))
        key_mult_start == FAdd(FMul(l.key_rlc_mult_prev, FNot(l.is_first_storage_level)), l.is_first_storage_level)
        sel1 == FMul(FNot(l.is_first_storage_level), l.sel1_above)
        sel2 == FAdd(FMul(FNot(l.is_first_storage_level), l.sel2_above), l.is_first_storage_level)
        on == <<l.q_enable, l.is_branch_placeholder, FNot(l.is_leaf_in_first_level)>>
        short == key_rlc_acc_short(l.row, key_rlc_acc_start, key_mult_start, sel1, sel2)
        long == key_rlc_acc_long(l.row, key_rlc_acc_start, key_mult_start, sel1, sel2)
    IN << FProd(on \o <<FSub(s_bytes(l.row, 0), 32), sel2, is_short>>),
          FProd(on \o <<FSub(short, l.key_rlc), is_short>>),
          FProd(on \o <<FSub(s_bytes(l.row, 1), 32), sel2, is_long>>),
          FProd(on \o <<FSub(long, l.key_rlc), is_long>>) >>

---------------------------------------------------------------------------
(* Spec: one root-to-leaf path.  A level is a branch, alone or under an    *)
(* extension node.  What the trie fixes (modified_node, the segment, the   *)
(* rows' bytes, the position flags) is given; sel1, sel2, the c16/c1 half  *)
(* of the shape selector, the nibble counter, key_rlc and key_rlc_mult are *)
(* cells the prover fills, and a level joins the trace only with cells     *)
(* that satisfy every gate.                                                *)

\* nibbles of a key (64 for the 32-byte keys of the circuit)
KEY_NIBBLES == 2 * HASH_WIDTH

\* values the prover may try for a selector cell and for the counter cell
SelSample == {0, 1, 2}

CountSample == 0..(KEY_NIBBLES + 2)

\* what the rows above the trie's first branch hold in the cells the gates
\* reach by rotation
AboveSample == {[sel1 |-> 0, sel2 |-> 1, key_rlc |-> 9, key_rlc_mult |-> 4, nibbles_count |-> 3]}

\* the segment of n nibbles of an extension node
Segment(n) == [i \in 1..n |-> (5 * i + 3) % 16]

\* the hash of the branch, as the extension row carries it
BranchHash == [i \in 1..HASH_WIDTH |-> 255 - i]

\* the six shape selectors of the branch init row
ExtSelectors(seg, c16) ==
    LET short == Len(seg) = 1
        even == Len(seg) # 0 /\ Len(seg) % 2 = 0
        odd == Len(seg) > 1 /\ Len(seg) % 2 = 1
        bit(b) == IF b THEN 1 ELSE 0
    IN [is_ext_short_c16 |-> bit(short /\ c16), is_ext_short_c1 |-> bit(short /\ ~c16),
        is_ext_long_even_c16 |-> bit(even /\ c16), is_ext_long_even_c1 |-> bit(even /\ ~c16),
        is_ext_long_odd_c16 |-> bit(odd /\ c16), is_ext_long_odd_c1 |-> bit(odd /\ ~c16)]

\* the extension S row of a level (a regular branch has an empty one)
ExtRowOf(seg, longLen) == IF seg = <<>> THEN PadRow(<<>>) ELSE ExtRow(seg, longLen, TRUE, BranchHash)

\* the cells the gates of one level query: lv is the level, ext_row its
\* extension S row, prev the level above it (or the rows above the trie),
\* first tells the trie's first level
LevelCells(lv, ext_row, prev, first, trie) ==
    LET sels == ExtSelectors(lv.seg, lv.ext_c16)
    IN [q_not_first |-> 1, q_enable |-> 1, is_branch_init_prev |-> 1,
        not_first_level |-> IF first /\ trie = "account" THEN 0 ELSE 1,
        is_account_leaf_in_added_branch_prev |-> IF first /\ trie = "storage" THEN 1 ELSE 0,
        modified_node_cur |-> lv.modified_node,
        is_ext_short_c16 |-> sels.is_ext_short_c16, is_ext_short_c1 |-> sels.is_ext_short_c1,
        is_ext_long_even_c16 |-> sels.is_ext_long_even_c16, is_ext_long_even_c1 |-> sels.is_ext_long_even_c1,
        is_ext_long_odd_c16 |-> sels.is_ext_long_odd_c16, is_ext_long_odd_c1 |-> sels.is_ext_long_odd_c1,
        is_ext_longer_than_55 |-> IF lv.longLen # 0 THEN 1 ELSE 0,
        s_rlp2 |-> s_rlp2(ext_row), s_bytes0 |-> s_bytes(ext_row, 0),
        sel1_prev |-> prev.sel1, sel1_cur |-> lv.sel1, sel2_cur |-> lv.sel2,
        key_rlc_prev |-> prev.key_rlc, key_rlc_cur |-> lv.key_rlc,
        key_rlc_mult_prev |-> prev.key_rlc_mult, key_rlc_mult_cur |-> lv.key_rlc_mult,
        nibbles_count_prev |-> prev.nibbles_count, nibbles_count_cur |-> lv.nibbles_count]

\* the gates of a level, by the cells they constrain
SelAccepted(c) == AllZero(branch_key_sel(c)) /\ AllZero(constrain_sel(c))

CountAccepted(c) == AllZero(ext_nibbles_count(c)) /\ AllZero(branch_nibbles_count(c))

MultAccepted(c, seg) == AllZero(branch_key_mult(c)) /\ AllZero(extension_node_key(c, seg).mult)

KeyAccepted(c, seg) == AllZero(branch_key_rlc(c)) /\ AllZero(extension_node_key(c, seg).rlc)

LevelAccepted(c, seg) == SelAccepted(c) /\ CountAccepted(c) /\ MultAccepted(c, seg) /\ KeyAccepted(c, seg)

\* the level above level i of the trace t
LevelAbove(t, i) == IF i = 1 THEN t.above ELSE t.levels[i - 1]

\* the nibbles of the key that the levels s consume
RECURSIVE PathNibbles(_)
PathNibbles(s) == IF s = <<>> THEN <<>> ELSE Head(s).seg \o <<Head(s).modified_node>> \o PathNibbles(Tail(s))

\* the trace has no leaf yet
NoLeaf == [typ |-> "none", placeholder |-> FALSE]

TraceInit ==
    \E t \in {"account", "storage"}, a \in AboveSample :
        trace = [phase |-> "path", trie |-> t, above |-> a, levels |-> <<>>, leaf |-> NoLeaf, tampered |-> 0]

Init == AccIdle /\ NonExistingIdle /\ ExtIdle /\ RootIdle /\ NodeIdle /\ AssignIdle /\ LoadIdle /\ LeafShapeIdle /\ NonceBalanceIdle /\ BaseConversionIdle /\ StorageRootIdle /\ TraceInit

\* the values the prover tries for key_rlc and key_rlc_mult: the level's
\* nibbles folded onto the cells of the level above or onto (0, 1), under
\* either convention, and the values (0, 1) and those of the level above
ProverTries(prev, seg, mn) ==
    {KeyFold(r0, m0, Append(seg, mn), c16) : r0 \in {0, prev.key_rlc}, m0 \in {1, prev.key_rlc_mult}, c16 \in BOOLEAN}
        \cup {<<0, 1>>, <<prev.key_rlc, prev.key_rlc_mult>>}

\* a level of the trie joins the trace: the prover fills its cells, one gate's
\* cells after the other (a cell not yet filled holds 0)
AddLevel(mn, seg, longLen) ==
    /\ trace.phase = "path"
    /\ Len(PathNibbles(trace.levels)) + Len(seg) + 1 <= KEY_NIBBLES
    /\ LET first == trace.levels = <<>>
           prev == LevelAbove(trace, Len(trace.levels) + 1)
           blank == [modified_node |-> mn, seg |-> seg, longLen |-> longLen, ext_c16 |-> FALSE, sel1 |-> 0, sel2 |-> 0, nibbles_count |-> 0, key_rlc_mult |-> 0, key_rlc |-> 0]
           tries == ProverTries(prev, seg, mn)
           ext_row == ExtRowOf(seg, longLen)
       IN \E s1, s2 \in SelSample, c16 \in BOOLEAN :
            LET c1 == LevelCells([blank EXCEPT !.sel1 = s1, !.sel2 = s2, !.ext_c16 = c16], ext_row, prev, first, trace.trie)
            IN /\ seg = <<>> => ~c16
               /\ SelAccepted(c1)
               /\ \E n \in CountSample :
                    LET c2 == [c1 EXCEPT !.nibbles_count_cur = n]
                    IN /\ CountAccepted(c2)
                       /\ \E m \in {t[2] : t \in tries} :
                            LET c3 == [c2 EXCEPT !.key_rlc_mult_cur = m]
                            IN /\ MultAccepted(c3, seg)
                               /\ \E k \in {t[1] : t \in tries} :
                                    /\ KeyAccepted([c3 EXCEPT !.key_rlc_cur = k], seg)
                                    /\ trace' = [trace EXCEPT !.levels = Append(@, [blank EXCEPT !.sel1 = s1, !.sel2 = s2, !.ext_c16 = c16, !.nibbles_count = n, !.key_rlc_mult = m, !.key_rlc = k])]
    /\ UNCHANGED <<accVars, ne, ext, chain, node, asg, ld, sl, nb, bc, sr>>

\* a regular branch
AddBranch == \E mn \in NibbleSample : AddLevel(mn, <<>>, 0)

\* a branch under an extension node of at most 55 bytes, or of more
AddExtBranch ==
    \E mn \in NibbleSample, n \in {1, 2, 3}, longLen \in {0, 56} :
        /\ longLen # 0 => n > 1
        /\ AddLevel(mn, Segment(n), longLen)

---------------------------------------------------------------------------
(* The storage leaf that ends the path.                                    *)

\* the nibbles of the key that a leaf with n nibbles holds
LeafNibbles(n) == [i \in 1..n |-> (7 * i + 2) % 16]

\* hexToCompact of a leaf's nibbles: odd -> 48 + first nibble, even -> 32
LeafCompact(nibs) ==
    IF Len(nibs) % 2 = 1 THEN <<48 + nibs[1]>> \o NibblePairs(Tail(nibs))
    ELSE <<32>> \o NibblePairs(nibs)

\* the leaf key row: the list's RLP prefix (one byte, or 248 and a length
\* byte for a leaf of more than 55 bytes) and the key as an RLP string
LeafRow(nibs, typ) ==
    LET key == LeafCompact(nibs)
    IN PadRow(IF Len(key) = 1 THEN <<192 + 2, key[1]>>
              ELSE IF typ = "long" THEN <<248, 56 + Len(key), 128 + Len(key)>> \o key
              ELSE <<192 + 2 + Len(key), 128 + Len(key)>> \o key)

\* the shapes a leaf with these nibbles can have
LeafTypes(nibs) ==
    IF nibs = <<>> THEN {"last_level"} ELSE IF Len(nibs) = 1 THEN {"one_nibble"} ELSE {"short", "long"}

\* mpt.rs assign_long_short: flag1 and flag2 of the leaf's shape
assign_long_short(typ) ==
    [flag1 |-> IF typ \in {"long", "last_level"} THEN 1 ELSE 0,
     flag2 |-> IF typ \in {"short", "last_level"} THEN 1 ELSE 0]

\* the cells the leaf's gates query in the trace t, whose last level is the
\* branch right above the leaf
LeafCells(leaf, t) ==
    LET depth == Len(t.levels)
        branch == IF depth = 0 THEN t.above ELSE t.levels[depth]
        above == IF depth <= 1 THEN t.above ELSE t.levels[depth - 1]
        flags == assign_long_short(leaf.typ)
    IN [q_enable |-> 1, row |-> LeafRow(leaf.nibs, leaf.typ), flag1 |-> flags.flag1, flag2 |-> flags.flag2,
        is_leaf_in_first_level |-> IF depth = 0 THEN 1 ELSE 0,
        is_first_storage_level |-> IF depth = 1 THEN 1 ELSE 0,
        is_branch_placeholder |-> IF leaf.placeholder THEN 1 ELSE 0,
        key_rlc_acc_start |-> branch.key_rlc, key_mult_start |-> branch.key_rlc_mult,
        sel1 |-> branch.sel1, sel2 |-> branch.sel2, nibbles_count |-> branch.nibbles_count,
        key_rlc_prev_branch |-> above.key_rlc, key_rlc_mult_prev_branch |-> above.key_rlc_mult,
        sel1_above |-> above.sel1, sel2_above |-> above.sel2, nibbles_count_above |-> above.nibbles_count,
        key_rlc |-> leaf.key_rlc, key_rlc_prev |-> leaf.key_rlc_prev, key_rlc_mult_prev |-> leaf.key_rlc_mult_prev]

\* the leaf's check of the nibble counter (not part of the sources at hand):
\* the counter of the level the key RLC resumes from, taken as 0 where there
\* is none, and the nibbles the leaf's key holds make a whole key
leaf_nibbles_count(l) ==
    LET resume_above == l.is_branch_placeholder
        top == FAdd(l.is_leaf_in_first_level, FMul(resume_above, l.is_first_storage_level))
        count == FMul(FNot(top), FAdd(FMul(FNot(resume_above), l.nibbles_count), FMul(resume_above, l.nibbles_count_above)))
        c16 == FMul(FNot(top), FAdd(FMul(FNot(resume_above), l.sel1), FMul(resume_above, l.sel1_above)))
        last_level == FMul(l.flag1, l.flag2)
        is_long == FMul(l.flag1, FNot(l.flag2))
        is_short == FMul(FNot(l.flag1), l.flag2)
        key_len == FAdd(FMul(is_short, FSub(s_rlp2(l.row), 128)), FMul(is_long, FSub(s_bytes(l.row, 0), 128)))
        in_leaf == FMul(FNot(last_level), FSub(FSub(FMul(key_len, 2), 1), FNot(c16)))
    IN << FMul(l.q_enable, FSub(FAdd(count, in_leaf), KEY_NIBBLES)) >>

\* the gates of the leaf, by the cells they constrain
LeafShapeAccepted(l) == AllZero(leaf_flags(l)) /\ AllZero(leaf_nibbles_count(l))

LeafPrevAccepted(l) == AllZero(previous_level_rlc(l))

LeafKeyAccepted(l) == AllZero(leaf_key_rlc(l)) /\ AllZero(leaf_key_rlc_first_level(l)) /\ AllZero(leaf_key_rlc_after_placeholder(l))

\* the levels whose nibbles are part of the key: all but a placeholder
KeyLevels(t) == IF t.leaf.placeholder THEN SubSeq(t.levels, 1, Len(t.levels) - 1) ELSE t.levels

\* the nibbles of the whole key of a trace with its leaf
KeyNibblesOf(t) == PathNibbles(KeyLevels(t)) \o t.leaf.nibs

\* the storage leaf joins the trace, under the last branch or under a last
\* branch that is a placeholder; the prover fills key_rlc_prev,
\* key_rlc_mult_prev and key_rlc.  The trie's keys are strings of bytes, so
\* the path and the leaf hold an even number of nibbles between them; how
\* many is left to the gates.  For key_rlc the prover tries the key's bytes
\* folded onto (0, 1), onto the cells of the branch above or onto
\* (key_rlc_prev, key_rlc_mult_prev), under either convention, and the
\* starting values themselves.
AddLeaf(n, typ, placeholder) ==
    /\ trace.phase = "path"
    /\ trace.trie = "storage"
    /\ placeholder => trace.levels # <<>>
    /\ typ \in LeafTypes(LeafNibbles(n))
    /\ LET blank == [nibs |-> LeafNibbles(n), typ |-> typ, placeholder |-> placeholder, key_rlc |-> 0, key_rlc_prev |-> 0, key_rlc_mult_prev |-> 0]
           l0 == LeafCells(blank, trace)
           prevs == {0, 1, l0.key_rlc_acc_start, l0.key_mult_start, l0.key_rlc_prev_branch, l0.key_rlc_mult_prev_branch}
           sels == {<<1, 0>>, <<0, 1>>}
           starts(p, q) == {<<0, 1>>, <<p, q>>, <<l0.key_rlc_acc_start, l0.key_mult_start>>}
           keys(p, q) == {IF typ = "long" THEN key_rlc_acc_long(l0.row, a[1], a[2], c[1], c[2])
                                          ELSE key_rlc_acc_short(l0.row, a[1], a[2], c[1], c[2]) : a \in starts(p, q), c \in sels}
                           \cup {0, p, l0.key_rlc_acc_start}
           path_nibbles == Len(PathNibbles(KeyLevels([trace EXCEPT !.leaf = blank])))
       IN /\ path_nibbles + n <= KEY_NIBBLES
          /\ (path_nibbles + n) % 2 = 0
          /\ LeafShapeAccepted(l0)
          /\ \E p, q \in prevs :
               LET l1 == [l0 EXCEPT !.key_rlc_prev = p, !.key_rlc_mult_prev = q]
               IN /\ LeafPrevAccepted(l1)
                  /\ \E k \in keys(p, q) :
                       /\ LeafKeyAccepted([l1 EXCEPT !.key_rlc = k])
                       /\ trace' = [trace EXCEPT !.phase = "leaf", !.leaf = [blank EXCEPT !.key_rlc_prev = p, !.key_rlc_mult_prev = q, !.key_rlc = k]]
    /\ UNCHANGED <<accVars, ne, ext, chain, node, asg, ld, sl, nb, bc, sr>>

AddStorageLeaf == \E n \in 0..KEY_NIBBLES, typ \in {"short", "long", "last_level", "one_nibble"} : AddLeaf(n, typ, FALSE)

AddLeafAfterPlaceholder == \E n \in 0..KEY_NIBBLES, typ \in {"short", "long", "last_level", "one_nibble"} : AddLeaf(n, typ, TRUE)

\* modified_node of the branch of level i of the accepted levels is changed,
\* every other cell is left
Tamper ==
    /\ trace.phase = "path"
    /\ \E i \in 1..Len(trace.levels) : trace' = [trace EXCEPT !.phase = "tampered", !.tampered = i]
    /\ UNCHANGED <<accVars, ne, ext, chain, node, asg, ld, sl, nb, bc, sr>>

Next == AddBranch \/ AddExtBranch \/ AddStorageLeaf \/ AddLeafAfterPlaceholder \/ Tamper

Spec == Init /\ [][Next]_vars

---------------------------------------------------------------------------
(* C1: key round trip *)

\* the levels of the trace are branches without an extension node
OnlyBranches == \A i \in 1..Len(trace.levels) : trace.levels[i].seg = <<>>

\* the trace ends in a leaf that holds the nibbles the path has left over
WholeKey == trace.phase = "leaf" /\ Len(KeyNibblesOf(trace)) = KEY_NIBBLES

\* the raw key of the trace, byte j = 16 * nibble[2j] + nibble[2j + 1]
RawKey == NibblePairs(KeyNibblesOf(trace))

\* C1: on a path of branches that ends in a leaf whose compact-encoded key
\* holds the remaining nibbles, the key RLC the leaf's gate fixes is the RLC
\* of the raw key bytes, folded from (0, 1) with the same r
C1_KeyRoundTrip ==
    (WholeKey /\ OnlyBranches /\ ~trace.leaf.placeholder)
        => trace.leaf.key_rlc = bytes_into_rlc(RawKey)

\* three branches, the first with nibble 15, above a leaf with an odd number
\* of nibbles
C1_Witness ==
    /\ WholeKey /\ OnlyBranches /\ ~trace.leaf.placeholder
    /\ Len(trace.levels) = 3
    /\ trace.levels[1].modified_node = 15
    /\ Len(trace.leaf.nibs) % 2 = 1
    /\ s_bytes(LeafRow(trace.leaf.nibs, trace.leaf.typ), 0) = 48 + trace.leaf.nibs[1]
    /\ trace.leaf.key_rlc = bytes_into_rlc(RawKey)
    /\ trace.leaf.key_rlc # 0

---------------------------------------------------------------------------
(* C2: the nibble counter *)

\* the trace has its leaf
HasLeaf == trace.leaf.typ # "none"

---------------------------------------------------------------------------
(* C4: a leaf under a placeholder branch *)

\* the trace ends in a leaf under a placeholder branch
AfterPlaceholder == trace.phase = "leaf" /\ trace.leaf.placeholder

\* the trace without its placeholder level, the leaf right under the level
\* above
Skipped == [trace EXCEPT !.levels = KeyLevels(trace), !.leaf = [trace.leaf EXCEPT !.placeholder = FALSE]]

\* C4: for a leaf under a placeholder branch, key_rlc_prev and
\* key_rlc_mult_prev are the key RLC and multiplier of the branch above the
\* placeholder (0 and 1 when the placeholder is in the first storage level),
\* and the leaf's key RLC is the one the gates fix for the same leaf placed
\* right under that branch, with that branch's c16/c1; on a path of branches
\* it is the RLC of the raw key
C4_PlaceholderSkipped ==
    AfterPlaceholder =>
        LET depth == Len(trace.levels)
        IN /\ trace.leaf.key_rlc_prev = (IF depth = 1 THEN 0 ELSE trace.levels[depth - 1].key_rlc)
           /\ trace.leaf.key_rlc_mult_prev = (IF depth = 1 THEN 1 ELSE trace.levels[depth - 1].key_rlc_mult)
           /\ AllZero(leaf_key_rlc(LeafCells(Skipped.leaf, Skipped)))
           /\ AllZero(leaf_key_rlc_first_level(LeafCells(Skipped.leaf, Skipped)))
           /\ OnlyBranches => trace.leaf.key_rlc = bytes_into_rlc(RawKey)

\* a long leaf under a placeholder that is the third branch: the branch
\* above the placeholder and the placeholder differ in key RLC and in
\* multiplier
C4_Witness ==
    /\ AfterPlaceholder /\ OnlyBranches
    /\ Len(trace.levels) = 3
    /\ trace.leaf.typ = "long"
    /\ trace.levels[2].modified_node = 15 /\ trace.levels[3].modified_node = 15
    /\ trace.levels[2].key_rlc # trace.levels[3].key_rlc
    /\ trace.leaf.key_rlc_prev = trace.levels[2].key_rlc
    /\ trace.leaf.key_rlc_mult_prev = trace.levels[2].key_rlc_mult
    /\ trace.leaf.key_rlc = bytes_into_rlc(RawKey)

---------------------------------------------------------------------------
(* C9: the first level *)

\* the ORIGINAL statement of C9: every first-level branch, with or without
\* an extension node, has sel1 = 1, sel2 = 0 and key_rlc_mult = 1
C9_FirstLevelAlwaysC16 ==
    trace.levels # <<>> =>
        /\ trace.levels[1].sel1 = 1 /\ trace.levels[1].sel2 = 0
        /\ trace.levels[1].key_rlc_mult = 1

\* C9 as the gate has it: a first-level branch (of the account trie, of a
\* storage trie) without an extension node has sel1 = 1, sel2 = 0 and
\* key_rlc_mult = 1; under an extension node with an even number of nibbles
\* it has sel1 = 1, sel2 = 0; under one with an odd number of nibbles it has
\* sel1 = 0, sel2 = 1
C9_FirstLevel ==
    trace.levels # <<>> =>
        LET lv == trace.levels[1]
        IN /\ lv.seg = <<>> => (lv.sel1 = 1 /\ lv.sel2 = 0 /\ lv.key_rlc_mult = 1)
           /\ (lv.seg # <<>> /\ Len(lv.seg) % 2 = 0) => (lv.sel1 = 1 /\ lv.sel2 = 0)
           /\ Len(lv.seg) % 2 = 1 => (lv.sel1 = 0 /\ lv.sel2 = 1)

\* a first storage level under an extension node of three nibbles
C9_Witness ==
    /\ trace.trie = "storage" /\ trace.levels # <<>>
    /\ Len(trace.levels[1].seg) = 3
    /\ trace.levels[1].sel1 = 0 /\ trace.levels[1].sel2 = 1

---------------------------------------------------------------------------
(* C10: the convention under an extension node below the first level *)

\* the levels below the first that are under an extension node
ExtLevelsBelowFirst == {i \in 2..Len(trace.levels) : trace.levels[i].seg # <<>>}

\* the ORIGINAL statement of C10: an even segment leaves the convention of
\* the previous branch, an odd one makes it the opposite
C10_EvenKeepsOddFlips ==
    \A i \in ExtLevelsBelowFirst :
        IF Len(trace.levels[i].seg) % 2 = 0
        THEN trace.levels[i].sel1 = trace.levels[i - 1].sel1
        ELSE trace.levels[i].sel1 = 1 - trace.levels[i - 1].sel1

\* C10 as the gate has it: below the first level, a branch under an
\* extension node with an even number of nibbles has the convention opposite
\* to the previous branch's (as a branch without extension node has), under
\* one with an odd number of nibbles (the one-nibble shape among them) it has
\* the previous branch's convention
C10_EvenFlipsOddKeeps ==
    /\ \A i \in ExtLevelsBelowFirst :
          /\ trace.levels[i].sel2 = 1 - trace.levels[i].sel1
          /\ IF Len(trace.levels[i].seg) % 2 = 0
             THEN trace.levels[i].sel1 = 1 - trace.levels[i - 1].sel1
             ELSE trace.levels[i].sel1 = trace.levels[i - 1].sel1
    /\ \A i \in 2..Len(trace.levels) :
          trace.levels[i].seg = <<>> => trace.levels[i].sel1 = 1 - trace.levels[i - 1].sel1

\* a branch under c16, then an extension node of one nibble whose branch is
\* under c16 too, then an extension node of two nibbles whose branch is
\* under c1
C10_Witness ==
    /\ Len(trace.levels) = 3
    /\ Len(trace.levels[2].seg) = 1 /\ Len(trace.levels[3].seg) = 2
    /\ trace.levels[1].sel1 = 1 /\ trace.levels[2].sel1 = 1 /\ trace.levels[3].sel1 = 0

---------------------------------------------------------------------------
(* C6: tampering with modified_node *)

\* the cells of the gate "Branch key RLC" at level i, modified_node being v
TamperedCells(i, v) ==
    LET lv == trace.levels[i]
    IN LevelCells([lv EXCEPT !.modified_node = v], ExtRowOf(lv.seg, lv.longLen), LevelAbove(trace, i), i = 1, trace.trie)

\* every other value of modified_node at level i violates a constraint
TamperDetected(i) ==
    \A v \in 0..15 : v # trace.levels[i].modified_node => ~AllZero(BranchKeyRLC(TamperedCells(i, v)))

\* the ORIGINAL statement of C6: changing modified_node of any one branch
\* violates a constraint of the gate "Branch key RLC"
C6_AnyBranchDetected == trace.phase = "tampered" => TamperDetected(trace.tampered)

\* C6 as the gate has it: changing modified_node of a branch that is not
\* under an extension node violates a constraint of the gate "Branch key
\* RLC" (first level, first storage level, deeper levels, c16 and c1); for a
\* branch under an extension node no value of modified_node violates one
C6_RegularBranchDetected ==
    trace.phase = "tampered" =>
        IF trace.levels[trace.tampered].seg = <<>>
        THEN TamperDetected(trace.tampered)
        ELSE \A v \in 0..15 : AllZero(BranchKeyRLC(TamperedCells(trace.tampered, v)))

\* the third of three branches, under c16, is tampered with in a storage trie
C6_Witness ==
    /\ trace.phase = "tampered" /\ trace.trie = "storage"
    /\ Len(trace.levels) = 3 /\ OnlyBranches
    /\ trace.tampered = 3
    /\ trace.levels[3].sel1 = 1
    /\ TamperDetected(3)

---------------------------------------------------------------------------
(* The gate "Extension node selectors & RLP" and the hash lookups of       *)
(* branch/extension_node.rs.  The gates are enabled in the extension S row *)
(* and in the extension C row of a branch whose init row marks an          *)
(* extension node: q_enable is the row's kind flag times the sum of the    *)
(* six shape selectors.  c is the record of the cells queried for one      *)
(* side: the selectors, is_branch_c16 (sel1_cur), is_branch_c1 (sel2_cur), *)
(* is_ext_longer_than_55, is_ext_node_non_hashed and is_branch_placeholder *)
(* of that side in the branch init row, the bytes of the extension row.    *)

\* helpers.rs get_bool_constraint
get_bool_constraint(q_enable, expr) == FProd(<<q_enable, expr, FNot(expr)>>)

\* "Bool check is_ext_short_c16" .. "Bool check is_ext_node_non_hashed"
ext_sel_bool(c) ==
    LET on == FProd(<<c.q_not_first, c.q_enable, FNot(c.is_branch_init_prev)>>)
    IN << get_bool_constraint(on, c.is_ext_short_c16), get_bool_constraint(on, c.is_ext_short_c1),
          get_bool_constraint(on, c.is_ext_long_even_c16), get_bool_constraint(on, c.is_ext_long_even_c1),
          get_bool_constraint(on, c.is_ext_long_odd_c16), get_bool_constraint(on, c.is_ext_long_odd_c1),
          get_bool_constraint(on, c.is_ext_longer_than_55), get_bool_constraint(on, c.is_ext_node_non_hashed) >>

\* a variant whose equation for one nibble and a hashed branch counts the
\* byte of the nibble twice
ext_rlp_mut(c) ==
    LET on == <<c.q_not_first, c.q_enable>>
        is_short == get_is_extension_node_one_nibble(c)
        is_even_nibbles == get_is_extension_node_even_nibbles(c)
        is_long_odd_nibbles == get_is_extension_node_long_odd_nibbles(c)
        hashed == is_branch_hashed(c.row)
        key_len(len_byte) == FSub(FFrom(len_byte), 128)
        raw_branch == FSub(FFrom(c_bytes(c.row, 0)), 192)
        list_len == FSub(FFrom(s_rlp1(c.row)), 192)
    IN << FProd(on \o <<is_even_nibbles, FFrom(s_bytes(c.row, 0))>>),
          FProd(on \o <<is_short, hashed, FSub(FSub(list_len, c33), 2)>>),
          FProd(on \o <<is_short, FNot(hashed), FSub(FSub(FSub(list_len, 1), raw_branch), 1)>>),
          FProd(on \o <<FNot(c.is_ext_longer_than_55), FAdd(is_even_nibbles, is_long_odd_nibbles), hashed,
                        FSub(FSub(FSub(list_len, key_len(s_rlp2(c.row))), 1), c33)>>),
          FProd(on \o <<FNot(c.is_ext_longer_than_55), FAdd(is_even_nibbles, is_long_odd_nibbles), FNot(hashed),
                        FSub(FSub(FSub(FSub(list_len, key_len(s_rlp2(c.row))), 1), raw_branch), 1)>>),
          FProd(on \o <<c.is_ext_longer_than_55, FSub(FFrom(s_rlp1(c.row)), 248)>>),
          FProd(on \o <<c.is_ext_longer_than_55, hashed,
                        FSub(FSub(FSub(FFrom(s_rlp2(c.row)), key_len(s_bytes(c.row, 0))), 1), c33)>>),
          FProd(on \o <<c.is_ext_longer_than_55, FNot(hashed),
                        FSub(FSub(FSub(FSub(FFrom(s_rlp1(c.row)), key_len(s_bytes(c.row, 0))), 1), raw_branch), 1)>>) >>

\* the constraints of the gate that are pushed "if is_s": "Long & even
\* implies s_bytes0 = 0", "One nibble & hashed branch RLP", "One nibble &
\* non-hashed branch RLP", "More than one nibble & hashed branch & ext not
\* longer than 55 RLP", its non-hashed form, "Extension longer than 55 RLP:
\* s_rlp1 = 248", "Hashed branch & ext longer than 55 RLP", "Non-hashed
\* branch & ext longer than 55 RLP" (which reads s_rlp1)
ext_rlp(c) ==
    LET on == <<c.q_not_first, c.q_enable>>
        is_short == get_is_extension_node_one_nibble(c)
        is_even_nibbles == get_is_extension_node_even_nibbles(c)
        is_long_odd_nibbles == get_is_extension_node_long_odd_nibbles(c)
        hashed == is_branch_hashed(c.row)
        key_len(len_byte) == FSub(FFrom(len_byte), 128)
        raw_branch == FSub(FFrom(c_bytes(c.row, 0)), 192)
        list_len == FSub(FFrom(s_rlp1(c.row)), 192)
    IN << FProd(on \o <<is_even_nibbles, FFrom(s_bytes(c.row, 0))>>),
          FProd(on \o <<is_short, hashed, FSub(FSub(list_len, c33), 1)>>),
          FProd(on \o <<is_short, FNot(hashed), FSub(FSub(FSub(list_len, 1), raw_branch), 1)>>),
          FProd(on \o <<FNot(c.is_ext_longer_than_55), FAdd(is_even_nibbles, is_long_odd_nibbles), hashed,
                        FSub(FSub(FSub(list_len, key_len(s_rlp2(c.row))), 1), c33)>>),
          FProd(on \o <<FNot(c.is_ext_longer_than_55), FAdd(is_even_nibbles, is_long_odd_nibbles), FNot(hashed),
                        FSub(FSub(FSub(FSub(list_len, key_len(s_rlp2(c.row))), 1), raw_branch), 1)>>),
          FProd(on \o <<c.is_ext_longer_than_55, FSub(FFrom(s_rlp1(c.row)), 248)>>),
          FProd(on \o <<c.is_ext_longer_than_55, hashed,
                        FSub(FSub(FSub(FFrom(s_rlp2(c.row)), key_len(s_bytes(c.row, 0))), 1), c33)>>),
          FProd(on \o <<c.is_ext_longer_than_55, FNot(hashed),
                        FSub(FSub(FSub(FSub(FFrom(s_rlp1(c.row)), key_len(s_bytes(c.row, 0))), 1), raw_branch), 1)>>) >>

\* the gate "Extension node selectors & RLP" of one side
ExtensionNodeSelectorsRLP(c, is_s) ==
    ext_sel_bool(c) \o constrain_sel(c) \o (IF is_s THEN ext_rlp(c) ELSE <<>>)

\* the RLC of the branch as the lookups below take it: the accumulator of
\* the last branch child and 128 for the branch's empty value
branch_acc(c) == FAdd(c.branch_acc_rlc, FMul(128, c.branch_acc_mult))

\* a lookup is the pair of expressions it submits; it passes when the pair is
\* a row of the keccak table (KECCAK_INPUT_WIDTH = KECCAK_OUTPUT_WIDTH = 1)
LookupPasses(pair, keccak_table) == pair \in keccak_table

\* a variant that looks the pair up when the branch is not hashed
branch_hash_in_ext_mut(c) ==
    LET on == FProd(<<c.q_not_first, c.q_enable, FNot(c.is_branch_init_prev), FNot(is_branch_hashed(c.row))>>)
    IN << FMul(on, branch_acc(c)), FMul(on, bytes_into_rlc(c_main_bytes(c.row))) >>

\* lookup "Extension node branch hash in extension row"
branch_hash_in_ext(c) ==
    LET on == FProd(<<c.q_not_first, c.q_enable, FNot(c.is_branch_init_prev), is_branch_hashed(c.row)>>)
    IN << FMul(on, branch_acc(c)), FMul(on, bytes_into_rlc(c_main_bytes(c.row))) >>

\* gate "Extension node branch hash in extension row (non-hashed branch)"
non_hashed_branch_in_ext(c) ==
    << FProd(<<c.q_not_first, c.q_enable, FNot(is_branch_hashed(c.row)),
               FSub(branch_acc(c), bytes_into_rlc(c_main_bytes(c.row)))>>) >>

\* lookup "Account first level extension node hash - compared to root"
first_level_root(c) ==
    LET on == FProd(<<c.q_not_first, c.q_enable, FNot(c.not_first_level)>>)
    IN << FMul(on, c.acc_c), FMul(on, c.root) >>

\* lookup "Extension node in first level of storage trie - hash compared to
\* the storage root"
storage_first_level_root(c) ==
    LET on == FProd(<<c.not_first_level, is_extension_node(c), c.is_after_last_branch_child,
                      c.is_account_leaf_in_added_branch_prev, FNot(c.is_branch_placeholder)>>)
    IN << FMul(on, c.acc_c), FMul(on, c.storage_root_rlc) >>

\* lookup "Extension node hash in parent branch"
hash_in_parent(c) ==
    LET on == FProd(<<c.not_first_level, c.q_enable, FNot(c.is_account_leaf_in_added_branch_prev),
                      FNot(c.is_branch_placeholder), FNot(c.is_ext_node_non_hashed)>>)
    IN << FMul(on, c.acc_c), FMul(on, c.mod_node_hash_rlc) >>

\* gate "Extension node in parent branch (non-hashed extension node)"
non_hashed_ext_in_parent(c) ==
    << FProd(<<c.q_not_first, c.not_first_level, c.q_enable, FNot(c.is_account_leaf_in_added_branch_prev),
               FNot(c.is_branch_placeholder), c.is_ext_node_non_hashed,
               FSub(c.mod_node_hash_rlc, c.acc_c)>>) >>

---------------------------------------------------------------------------
(* SpecNode: the two extension rows of one branch.  The trie fixes the     *)
(* node of either proof (its segment, its branch or the branch's hash),    *)
(* where it hangs (the root, a storage root, the parent branch's child at  *)
(* modified_node) and the keccak table; the prover fills the cells of the  *)
(* branch init row and of the two extension rows, and a row joins the      *)
(* trace only with cells that satisfy its gates and lookups.               *)

\* the second nibbles of the segment's bytes, which the extension C row
\* holds in its s_main bytes (its s_rlp1 and s_rlp2 are 0)
SecondNibbles(nibs) ==
    LET paired == IF Len(nibs) % 2 = 1 THEN Tail(nibs) ELSE nibs
    IN [i \in 1..(Len(paired) \div 2) |-> paired[2 * i]]

ExtRowC(nibs, hashed, bytes) ==
    LET sn == SecondNibbles(nibs)
    IN [k \in 1..WITNESS_ROW_WIDTH |->
          IF k > RLP_NUM /\ k - RLP_NUM <= Len(sn) THEN sn[k - RLP_NUM]
          ELSE IF k > C_RLP_START /\ k - C_RLP_START <= Len(bytes) + 2
               THEN CSide(hashed, bytes)[k - C_RLP_START]
               ELSE 0]

\* the length byte that follows 248 in a node longer than 55 bytes
LongLenOf(nibs, hashed, bytes) == Len(ExtCompact(nibs)) + 1 + BranchLenInExt(hashed, bytes)

\* the extension S row of the node as the trie has it
GenuineRowS(n, side) ==
    IF n.seg = <<>> THEN PadRow(<<>>)
    ELSE ExtRow(n.seg, IF n.long THEN LongLenOf(n.seg, side.hashed, side.bytes) ELSE 0, side.hashed, side.bytes)

GenuineRowC(n, side) == IF n.seg = <<>> THEN PadRow(<<>>) ELSE ExtRowC(n.seg, side.hashed, side.bytes)

\* what one proof's side of the trie holds: the branch under the extension
\* node (its hash, or its bytes when it is shorter than a hash), the cells of
\* the last branch child, the root, the storage root in the account leaf
\* and the parent branch's child at modified_node
TrieSide(hashed, digest, m, root, storage_root, child) ==
    LET bytes == IF hashed THEN digest ELSE CHOOSE b \in RawBranchSample : TRUE
    IN [hashed |-> hashed, bytes |-> bytes, branch_acc_mult |-> m,
        branch_acc_rlc |-> IF hashed THEN FAdd(5, m) ELSE FSub(bytes_into_rlc(bytes), FMul(128, m)),
        root |-> root, storage_root_rlc |-> storage_root, mod_node_hash_rlc |-> child]

\* the hashes the two proofs' branches have
DigestS == [i \in 1..HASH_WIDTH |-> 1]

DigestC == [i \in 1..HASH_WIDTH |-> 255 - i]

\* ProofValues before the extension rows
NodePv0 == [acc_s |-> 0, acc_mult_s |-> 1, acc_c |-> 0, acc_mult_c |-> 1]

\* ProofValues after assign on the genuine S row, and after the C row
GenuinePvS(n) == ext_assign(GenuineRowS(n, n.s), NodePv0, TRUE)

GenuinePvC(n) == ext_assign(GenuineRowC(n, n.c), GenuinePvS(n), FALSE)

\* the RLC of the whole extension node of a side, as assign computes it
GenuineExtRlc(n, sd) == IF sd = "s" THEN GenuinePvS(n).acc_c ELSE GenuinePvC(n).acc_c

\* what the node hangs on at its level
TargetOf(level, side) ==
    IF level = "account_first" THEN side.root
    ELSE IF level = "storage_first" THEN side.storage_root_rlc ELSE side.mod_node_hash_rlc

\* an extension node shorter than a hash stands in its parent as it is
ExtNonHashed(n, sd) == n.seg # <<>> /\ ~n[sd].hashed /\ ~n.long /\ n.level = "deeper"

\* the keccak table: the padding row, the hashed branches, and the hashed
\* extension node of every side that is not a placeholder
KeccakTableOf(n) ==
    LET real == {sd \in {"s", "c"} : n.placeholder # sd}
    IN {<<0, 0>>}
         \cup {<<branch_acc(n[sd]), bytes_into_rlc(n[sd].bytes)>> : sd \in {x \in {"s", "c"} : n[x].hashed}}
         \cup {<<GenuineExtRlc(n, sd), TargetOf(n.level, n[sd])>> : sd \in {x \in real : ~ExtNonHashed(n, x)}}

\* the cells of the branch init row as the trie has them
GenuineInit(n) ==
    LET bit(b) == IF b THEN 1 ELSE 0
        c16 == Len(n.seg) % 2 = 0
    IN ExtSelectors(n.seg, c16) @@
       [sel1 |-> bit(c16), sel2 |-> bit(~c16),
        longer_s |-> bit(n.long), longer_c |-> bit(n.long),
        non_hashed_s |-> bit(ExtNonHashed(n, "s")), non_hashed_c |-> bit(ExtNonHashed(n, "c"))]

\* the segments of the nodes: none (a regular branch), one, two, three nibbles
NodeSegments == {<<>>, Segment(1), Segment(2), Segment(3)}

NodeInit ==
    \E level \in {"account_first", "storage_first", "deeper"}, seg \in NodeSegments,
       long \in BOOLEAN, hashed \in BOOLEAN, ph \in {"none", "s", "c"} :
        /\ long => Len(seg) > 1
        /\ LET s0 == TrieSide(hashed, DigestS, 2, 3, 5, 11)
               c0 == TrieSide(hashed, DigestC, 4, 4, 6, 12)
               \* a placeholder side repeats the rows of the other side
               sP == [c0 EXCEPT !.root = 3, !.storage_root_rlc = 5, !.mod_node_hash_rlc = 11]
               cP == [s0 EXCEPT !.root = 4, !.storage_root_rlc = 6, !.mod_node_hash_rlc = 12]
               n0 == [phase |-> "rows", level |-> level, seg |-> seg, long |-> long, placeholder |-> ph,
                      s |-> IF ph = "s" THEN sP ELSE s0, c |-> IF ph = "c" THEN cP ELSE c0]
               \* a node shorter than a hash is the parent's child itself
               n1 == [n0 EXCEPT !.s.mod_node_hash_rlc = IF ExtNonHashed(n0, "s") /\ ph # "s" THEN GenuineExtRlc(n0, "s") ELSE @,
                                !.c.mod_node_hash_rlc = IF ExtNonHashed(n0, "c") /\ ph # "c" THEN GenuineExtRlc(n0, "c") ELSE @]
           IN node = n1 @@ [keccak_table |-> KeccakTableOf(n1),
                            init |-> [k \in DOMAIN GenuineInit(n1) |-> 0],
                            row_s |-> PadRow(<<>>), row_c |-> PadRow(<<>>),
                            cells_s |-> NodePv0, cells_c |-> NodePv0]

InitNode == AccIdle /\ NonExistingIdle /\ ExtIdle /\ RootIdle /\ AssignIdle /\ LoadIdle /\ LeafShapeIdle /\ NonceBalanceIdle /\ BaseConversionIdle /\ StorageRootIdle /\ TraceIdle /\ NodeInit

\* the cells the gates and lookups of the extension row of side sd query
NodeCells(n, sd) ==
    LET bit(b) == IF b THEN 1 ELSE 0
    IN [q_not_first |-> 1, q_enable |-> is_extension_node(n.init), is_branch_init_prev |-> 0,
        is_ext_short_c16 |-> n.init.is_ext_short_c16, is_ext_short_c1 |-> n.init.is_ext_short_c1,
        is_ext_long_even_c16 |-> n.init.is_ext_long_even_c16, is_ext_long_even_c1 |-> n.init.is_ext_long_even_c1,
        is_ext_long_odd_c16 |-> n.init.is_ext_long_odd_c16, is_ext_long_odd_c1 |-> n.init.is_ext_long_odd_c1,
        sel1_cur |-> n.init.sel1, sel2_cur |-> n.init.sel2,
        is_ext_longer_than_55 |-> IF sd = "s" THEN n.init.longer_s ELSE n.init.longer_c,
        is_ext_node_non_hashed |-> IF sd = "s" THEN n.init.non_hashed_s ELSE n.init.non_hashed_c,
        is_branch_placeholder |-> bit(n.placeholder = sd),
        not_first_level |-> bit(n.level # "account_first"),
        is_account_leaf_in_added_branch_prev |-> bit(n.level = "storage_first"),
        is_after_last_branch_child |-> 1,
        row |-> IF sd = "s" THEN n.row_s ELSE n.row_c,
        acc_c |-> IF sd = "s" THEN n.cells_s.acc_c ELSE n.cells_c.acc_c,
        branch_acc_rlc |-> n[sd].branch_acc_rlc, branch_acc_mult |-> n[sd].branch_acc_mult,
        root |-> n[sd].root, storage_root_rlc |-> n[sd].storage_root_rlc,
        mod_node_hash_rlc |-> n[sd].mod_node_hash_rlc]

\* the constraints on the cells of the branch init row: the selector part of
\* the gate on either extension row, and sel1, sel2 of "Branch key RLC"
InitRowAccepted(n) ==
    /\ \A sd \in {"s", "c"} : AllZero(ext_sel_bool(NodeCells(n, sd))) /\ AllZero(constrain_sel(NodeCells(n, sd)))
    /\ AllZero(branch_key_sel_bool([NodeCells(n, "s") EXCEPT !.is_branch_init_prev = 1]))

\* the gates and lookups of an extension row but those on the node's parent
ExtRowAccepted(n, sd) ==
    LET c == NodeCells(n, sd)
    IN /\ AllZero(ExtensionNodeSelectorsRLP(c, sd = "s"))
       /\ AllZero(ExtensionNodeRLC(n.row_s, c.row, c.q_enable, c.is_branch_init_prev, n.cells_s.acc_s,
                                   IF sd = "s" THEN n.cells_s.acc_mult_s ELSE n.cells_c.acc_mult_s, c.acc_c))
       /\ LookupPasses(branch_hash_in_ext(c), n.keccak_table)
       /\ AllZero(non_hashed_branch_in_ext(c))

\* the lookups and the gate that tie the node to its parent
ParentAccepted(n, sd) ==
    LET c == NodeCells(n, sd)
    IN /\ LookupPasses(first_level_root(c), n.keccak_table)
       /\ LookupPasses(storage_first_level_root(c), n.keccak_table)
       /\ LookupPasses(hash_in_parent(c), n.keccak_table)
       /\ AllZero(non_hashed_ext_in_parent(c))

\* the flags the prover tries: the trie's, or one of them changed
FlagTries(n) ==
    LET g == GenuineInit(n)
    IN {g} \cup {[g EXCEPT ![f] = v] : f \in {"longer_s", "non_hashed_s", "non_hashed_c"}, v \in SelSample}

ShapeNames == {"is_ext_short_c16", "is_ext_short_c1", "is_ext_long_even_c16", "is_ext_long_even_c1", "is_ext_long_odd_c16", "is_ext_long_odd_c1"}

\* the constraints that read the six shape selectors alone
ShapeAccepted(c) == AllZero(SubSeq(ext_sel_bool(c), 1, 6)) /\ constrain_sel(c)[1] = 0

\* the prover fills the branch init row: any values in the six shape
\* selectors and in sel1, sel2, and flags as above
FillBranchInit ==
    /\ node.phase = "rows"
    /\ \E shape \in [ShapeNames -> SelSample] :
         LET n1 == [node EXCEPT !.init = [k \in DOMAIN @ |-> IF k \in ShapeNames THEN shape[k] ELSE 0]]
         IN /\ ShapeAccepted(NodeCells(n1, "s"))
            /\ \E s1, s2 \in SelSample, fl \in FlagTries(node) :
                 LET n2 == [n1 EXCEPT !.init = [k \in DOMAIN @ |-> IF k \in ShapeNames THEN shape[k]
                                                  ELSE IF k = "sel1" THEN s1 ELSE IF k = "sel2" THEN s2 ELSE fl[k]]]
                 IN /\ InitRowAccepted(n2)
                    /\ node' = [n2 EXCEPT !.phase = "init"]
    /\ UNCHANGED <<accVars, ne, ext, chain, trace, asg, ld, sl, nb, bc, sr>>

\* the rows the prover tries for the extension S row: the node's row, or
\* that row with one cell changed (a length byte, c_rlp2, the branch's hash)
RowTriesS(g, other_digest) ==
    {g} \cup {[g EXCEPT ![1] = (@ + 1) % 256], [g EXCEPT ![2] = (@ + 1) % 256]}
        \cup {[g EXCEPT ![C_RLP_START + 2] = 160 - @]}
        \cup {[k \in 1..WITNESS_ROW_WIDTH |-> IF k > C_START THEN other_digest[k - C_START] ELSE g[k]]}

\* and for the extension C row
RowTriesC(g) == {g, [g EXCEPT ![C_RLP_START + 2] = 160 - @], [g EXCEPT ![C_RLP_START + 2] = 32]}

\* the accumulator cells the prover tries with the row r: what assign
\* writes for r, and for the node's own row also acc_c off by one
CellTries(r, g, pv) == IF r = g THEN {pv, [pv EXCEPT !.acc_c = FAdd(@, 1)]} ELSE {pv}

FillExtRowS ==
    /\ node.phase = "init"
    /\ \E r \in RowTriesS(GenuineRowS(node, node.s), DigestC) :
         \E cells \in CellTries(r, GenuineRowS(node, node.s), ext_assign(r, NodePv0, TRUE)) :
            LET n == [node EXCEPT !.row_s = r, !.cells_s = cells]
            IN /\ ExtRowAccepted(n, "s")
               /\ node' = [n EXCEPT !.phase = "s_row"]
    /\ UNCHANGED <<accVars, ne, ext, chain, trace, asg, ld, sl, nb, bc, sr>>

FillExtRowC ==
    /\ node.phase = "s_row"
    /\ \E r \in RowTriesC(GenuineRowC(node, node.c)) :
         \E cells \in CellTries(r, GenuineRowC(node, node.c), ext_assign(r, node.cells_s, FALSE)) :
            LET n == [node EXCEPT !.row_c = r, !.cells_c = cells]
            IN /\ ExtRowAccepted(n, "c")
               /\ node' = [n EXCEPT !.phase = "c_row"]
    /\ UNCHANGED <<accVars, ne, ext, chain, trace, asg, ld, sl, nb, bc, sr>>

\* the extension rows join the trace when the node is found in its parent
HashInParent ==
    /\ node.phase = "c_row"
    /\ ParentAccepted(node, "s") /\ ParentAccepted(node, "c")
    /\ node' = [node EXCEPT !.phase = "accepted"]
    /\ UNCHANGED <<accVars, ne, ext, chain, trace, asg, ld, sl, nb, bc, sr>>

NextNode == FillBranchInit \/ FillExtRowS \/ FillExtRowC \/ HashInParent

SpecNode == InitNode /\ [][NextNode]_vars

---------------------------------------------------------------------------
(* C11: the shape selectors *)

\* the branch init row has been filled
InitFilled == node.phase \in {"init", "s_row", "c_row", "accepted"}

\* how many of the six shape selectors hold 1
ShapesSet == Cardinality({k \in ShapeNames : node.init[k] = 1})

---------------------------------------------------------------------------
(* C12: the RLP length bytes of the extension S row *)

\* the extension S row has been filled for an extension node
ExtRowFilled == node.phase \in {"s_row", "c_row", "accepted"} /\ NodeCells(node, "s").q_enable # 0

\* the shape class of the node by its selectors
NodeShort == node.init.is_ext_short_c16 = 1 \/ node.init.is_ext_short_c1 = 1

\* the embedded branch is hashed as the row says it
RowHashed == node.row_s[C_RLP_START + 2] = 160

\* the raw branch length of a non-hashed branch with its length byte
RawBranchLen == (c_bytes(node.row_s, 0) - 192) + 1

\* C12: on the row that carries the RLP of the extension node (the gate
\* pushes the length equations for the S row, whose s_rlp1, s_rlp2 hold the
\* length bytes) the length bytes satisfy, with 33 the length of a hash with
\* its length byte: one nibble: s_rlp1 - 192 = 1 + 33; more than one nibble,
\* not flagged longer than 55: s_rlp1 - 192 = 1 + (s_rlp2 - 128) + 33;
\* flagged longer than 55: s_rlp1 = 248 and, hashed branch,
\* s_rlp2 = 1 + (s_bytes[0] - 128) + 33; with a branch that is not hashed
\* and a node not longer than 55 the 33 is (c_bytes[0] - 192) + 1
C12_RlpLengths ==
    ExtRowFilled =>
        LET r == node.row_s
            tail == IF RowHashed THEN c33 ELSE RawBranchLen
        IN /\ NodeShort => s_rlp1(r) - 192 = 1 + tail
           /\ ~NodeShort /\ node.init.longer_s = 0 => s_rlp1(r) - 192 = 1 + (s_rlp2(r) - 128) + tail
           /\ node.init.longer_s = 1 => s_rlp1(r) = 248
           /\ node.init.longer_s = 1 /\ RowHashed => s_rlp2(r) = 1 + (s_bytes(r, 0) - 128) + c33

\* the rows of a node flagged longer than 55 with a hashed branch are
\* accepted: 248, then the length of key part and branch
C12_Witness ==
    /\ node.phase = "accepted"
    /\ NodeCells(node, "s").q_enable # 0
    /\ node.init.longer_s = 1 /\ RowHashed
    /\ node.row_s = GenuineRowS(node, node.s)
    /\ s_rlp1(node.row_s) = 248
    /\ s_rlp2(node.row_s) = 1 + 2 + 33

---------------------------------------------------------------------------
(* C13: a node longer than 55 bytes whose branch is not hashed *)

\* the branch init row holds the flags of a node of an odd number of nibbles
\* that is longer than 55 bytes and whose branch is not hashed
LongNonHashedNode ==
    /\ node.phase = "init"
    /\ node.long /\ Len(node.seg) = 3 /\ ~node.s.hashed
    /\ node.init = GenuineInit(node)

\* C13: on an extension row flagged longer than 55 whose branch is not
\* hashed, s_rlp1 = 248 and
\* s_rlp2 = (s_bytes[0] - 128) + 1 + (c_bytes[0] - 192) + 1, and the row of
\* a genuine node of that shape satisfies the RLP constraints of the gate
C13_LongNonHashedRowOk ==
    LongNonHashedNode =>
        LET r == GenuineRowS(node, node.s)
            c == [NodeCells(node, "s") EXCEPT !.row = r]
        IN /\ s_rlp1(r) = 248
           /\ s_rlp2(r) = (s_bytes(r, 0) - 128) + 1 + (c_bytes(r, 0) - 192) + 1
           /\ AllZero(ext_rlp(c))

---------------------------------------------------------------------------
(* C14: the hash of the extension node in its parent *)

\* both extension rows of an extension node have been filled
BothRowsFilled == node.phase \in {"c_row", "accepted"} /\ NodeCells(node, "s").q_enable # 0

\* no lookup and no gate ties the side's extension row to the node's parent
ParentUnchecked(c) ==
    /\ first_level_root(c) = <<0, 0>>
    /\ storage_first_level_root(c) = <<0, 0>>
    /\ hash_in_parent(c) = <<0, 0>>
    /\ non_hashed_ext_in_parent([c EXCEPT !.mod_node_hash_rlc = FAdd(c.acc_c, 1)]) = <<0>>

\* the pair the side's row must have in the keccak table once accepted
ParentPairInTable(c) ==
    /\ node.level = "deeper" /\ c.is_ext_node_non_hashed = 0 => <<c.acc_c, c.mod_node_hash_rlc>> \in node.keccak_table
    /\ node.level = "account_first" => <<c.acc_c, c.root>> \in node.keccak_table

\* C14: on a side that is not a placeholder the pair (RLC of the extension
\* node, RLC of the parent branch's child at modified_node) is in the keccak
\* table, in the first level the pair (RLC of the extension node, RLC of
\* the root); on a side whose branch is a placeholder neither check is
\* enforced, at any level
C14_ParentHash ==
    BothRowsFilled =>
        \A sd \in {"s", "c"} :
            /\ node.placeholder = sd => ParentUnchecked(NodeCells(node, sd))
            /\ node.placeholder # sd /\ node.phase = "accepted" => ParentPairInTable(NodeCells(node, sd))

---------------------------------------------------------------------------
(* C15: the branch of the extension node *)

\* the sides whose extension row has been filled for an extension node
SidesFilled ==
    IF NodeCells(node, "s").q_enable = 0 THEN {}
    ELSE IF node.phase = "s_row" THEN {"s"}
    ELSE IF node.phase \in {"c_row", "accepted"} THEN {"s", "c"}
    ELSE {}

\* C15: on every extension row c_rlp2 is 160 (the branch is hashed) or 0
\* (it is not); when it is 160 the pair (RLC of the branch, RLC of the hash
\* bytes in the row's c_main) is in the keccak table; when it is 0 the RLC
\* of the branch equals the RLC of the bytes in the row's c_main
C15_BranchInExt ==
    \A sd \in SidesFilled :
        LET c == NodeCells(node, sd)
            hash_rlc == bytes_into_rlc(c_main_bytes(c.row))
        IN /\ c_rlp2(c.row) \in {0, 160}
           /\ c_rlp2(c.row) = 160 => <<branch_acc(c), hash_rlc>> \in node.keccak_table
           /\ c_rlp2(c.row) = 0 => branch_acc(c) = hash_rlc

\* both rows of a node with a hashed branch are accepted, the pair of the
\* branch and its hash being in the table
C15_Witness ==
    /\ node.phase = "accepted"
    /\ SidesFilled = {"s", "c"}
    /\ c_rlp2(node.row_s) = 160 /\ c_rlp2(node.row_c) = 160
    /\ c_main_bytes(node.row_c) = DigestC
    /\ <<branch_acc(NodeCells(node, "c")), bytes_into_rlc(DigestC)>> \in node.keccak_table
    /\ <<branch_acc(NodeCells(node, "c")), bytes_into_rlc(DigestC)>> # <<0, 0>>

---------------------------------------------------------------------------
(* The gates of account_non_existing.rs on the ACCOUNT_NON_EXISTING row.   *)
(* c holds the cells they query: the row and the leaf key row above it,    *)
(* not_first_level, address_rlc, the cells assign writes, and from the     *)
(* first branch child and the init row of the parent branch key_rlc,       *)
(* key_rlc_mult, sel1 (is_nil_object) and c16, c1.                         *)

\* "for ind in 3..HASH_WIDTH" of the two address gates
RECURSIVE ane_key_loop(_, _, _, _)
ane_key_loop(r, ind, key_rlc_acc, key_mult) ==
    IF ind >= HASH_WIDTH THEN key_rlc_acc
    ELSE ane_key_loop(r, ind + 1,
                      FAdd(key_rlc_acc, FProd(<<s_bytes(r, ind), key_mult, r_table(ind - 3)>>)), key_mult)

\* key_rlc_acc of either gate: the key RLC continued with the row's bytes
\* from s_main.bytes[2] on, c_main.rlp1 and c_main.rlp2 holding the last two
ane_key_rlc_acc(r, key_rlc_acc, key_mult) ==
    LET a == ane_key_loop(r, 3, FAdd(key_rlc_acc, FMul(FFrom(s_bytes(r, 2)), key_mult)), key_mult)
        b == FAdd(a, FProd(<<c_rlp1(r), key_mult, r_table(HASH_WIDTH - 3)>>))
    IN FAdd(b, FProd(<<c_rlp2(r), key_mult, r_table(HASH_WIDTH - 2)>>))

\* gate "Non existing account proof leaf address RLC (leaf not in first
\* level, branch not placeholder)"
ane_not_first_level(c) ==
    LET is_leaf_in_first_level == FSub(1, c.not_first_level)
        is_wrong_leaf == s_rlp1(c.row)
        s_advice1 == FFrom(s_bytes(c.row, 1))
        key_rlc_acc == FAdd(c.key_rlc_acc_start, FProd(<<FSub(s_advice1, 48), c.key_mult_start, c.c16>>))
        key_mult == FAdd(FProd(<<c.key_mult_start, acc_r, c.c16>>), FMul(c.key_mult_start, c.c1))
        on == <<c.q_enable, FNot(is_leaf_in_first_level)>>
    IN << FProd(on \o <<is_wrong_leaf, FSub(s_advice1, 32), c.c1>>),
          FProd(on \o <<is_wrong_leaf, FSub(ane_key_rlc_acc(c.row, key_rlc_acc, key_mult), c.address_rlc)>>) >>
       \o add_wrong_leaf_constraints(c.q_enable, c.row, c.row_prev, FNot(is_leaf_in_first_level),
                                     is_wrong_leaf, c.sum, c.sum_prev, c.diff_inv)
       \o << FProd(on \o <<FNot(is_wrong_leaf), FNot(c.is_nil_object)>>) >>

\* a variant whose address constraint folds the leaf key row above
ane_first_level_mut(c) ==
    LET is_leaf_in_first_level == FSub(1, c.not_first_level)
        is_wrong_leaf == s_rlp1(c.row)
        s_advice1 == FFrom(s_bytes(c.row, 1))
    IN << FProd(<<c.q_enable, FSub(s_advice1, 32), is_wrong_leaf, is_leaf_in_first_level>>),
          FProd(<<c.q_enable, is_leaf_in_first_level, is_wrong_leaf,
                  FSub(ane_key_rlc_acc(c.row_prev, 0, 1), c.address_rlc)>>) >>
       \o add_wrong_leaf_constraints(c.q_enable, c.row, c.row_prev, is_leaf_in_first_level,
                                     is_wrong_leaf, c.sum, c.sum_prev, c.diff_inv)

\* gate "Non existing account proof leaf address RLC (leaf in first level)"
ane_first_level(c) ==
    LET is_leaf_in_first_level == FSub(1, c.not_first_level)
        is_wrong_leaf == s_rlp1(c.row)
        s_advice1 == FFrom(s_bytes(c.row, 1))
    IN << FProd(<<c.q_enable, FSub(s_advice1, 32), is_wrong_leaf, is_leaf_in_first_level>>),
          FProd(<<c.q_enable, is_leaf_in_first_level, is_wrong_leaf,
                  FSub(ane_key_rlc_acc(c.row, 0, 1), c.address_rlc)>>) >>
       \o add_wrong_leaf_constraints(c.q_enable, c.row, c.row_prev, is_leaf_in_first_level,
                                     is_wrong_leaf, c.sum, c.sum_prev, c.diff_inv)

\* a variant that compares no cells
ane_same_length_mut(c) == << 0 >>

\* gate "Address of wrong leaf and the enquired address are of the same
\* length"
ane_same_length(c) ==
    << FProd(<<c.q_enable, s_rlp1(c.row), FSub(FFrom(s_bytes(c.row, 0)), FFrom(s_bytes(c.row_prev, 0)))>>) >>

\* the gates of AccountNonExistingConfig::configure
AccountNonExistingGates(c) == ane_not_first_level(c) \o ane_first_level(c) \o ane_same_length(c)

---------------------------------------------------------------------------
(* SpecWrongLeaf: a non-existing-account proof.  The trie fixes the path   *)
(* of branches above the leaf (0, 1 or 2 nibbles of the enquired address), *)
(* the leaf found there (another account's, the enquired account's own,    *)
(* or none: a nil object in the branch), and the cells of the parent       *)
(* branch; the prover fills the ACCOUNT_NON_EXISTING row and address_rlc,  *)
(* assign writes sum, sum_prev and diff_inv, and the proof is accepted     *)
(* when the gates of account_non_existing.rs hold.                         *)

\* the nibbles of the enquired address
NeAddress == [i \in 1..KEY_NIBBLES |-> (3 * i + 1) % 16]

\* the address with nibble j changed
OtherAddress(j) == [NeAddress EXCEPT ![j] = (@ + 1) % 16]

\* the key RLC of a whole key: the RLC of its bytes
AddressRlc(nibs) == bytes_into_rlc(NibblePairs(nibs))

\* the account leaf key row of a leaf that holds these nibbles
AccountKeyRow(first, nibs) == KeyRow(first, Len(LeafCompact(nibs)), LeafCompact(nibs))

\* the nibbles of a key below its first p
Below(nibs, p) == SubSeq(nibs, p + 1, Len(nibs))

\* key_rlc, key_rlc_mult of the first branch child and c16, c1 of the
\* branch init row after a path of p nibbles (no branch above the leaf when
\* p = 0: the cells hold what the rows above happen to hold, here zeros)
ParentCells(p) ==
    IF p = 0 THEN [key_rlc_acc_start |-> 0, key_mult_start |-> 0, c16 |-> 0, c1 |-> 0]
    ELSE IF p = 1 THEN [key_rlc_acc_start |-> FMul(16, NeAddress[1]), key_mult_start |-> 1, c16 |-> 1, c1 |-> 0]
    ELSE [key_rlc_acc_start |-> FAdd(FMul(16, NeAddress[1]), NeAddress[2]), key_mult_start |-> acc_r,
          c16 |-> 0, c1 |-> 1]

WrongLeafInit ==
    \E p \in 0..2, kind \in {"other", "own", "nil"}, j \in 1..KEY_NIBBLES :
        LET leaf == IF kind = "other" THEN OtherAddress(j) ELSE NeAddress
        IN /\ (kind = "other" => j > p) /\ (kind # "other" => j = 1)
           /\ (kind = "nil" => p > 0)
           /\ ne = ParentCells(p) @@
                   [phase |-> "trie", path |-> SubSeq(NeAddress, 1, p), leaf |-> leaf, q_enable |-> 1,
                    not_first_level |-> IF p = 0 THEN 0 ELSE 1,
                    is_nil_object |-> IF kind = "nil" THEN 1 ELSE 0,
                    row_prev |-> AccountKeyRow(248, Below(leaf, p)),
                    row |-> PadRow(<<>>), address_rlc |-> 0,
                    sum |-> 0, sum_prev |-> 0, diff_inv |-> 0, panicked |-> FALSE]

InitWrongLeaf == AccIdle /\ ExtIdle /\ RootIdle /\ NodeIdle /\ AssignIdle /\ LoadIdle /\ LeafShapeIdle /\ NonceBalanceIdle /\ BaseConversionIdle /\ StorageRootIdle /\ TraceIdle /\ WrongLeafInit

\* the nibbles the prover tries in the ACCOUNT_NON_EXISTING row: those of
\* the enquired address below the path, those of the leaf above, the
\* former with the last nibble changed, or the former without the first
RowNibbleTries(n) ==
    LET p == Len(n.path)
    IN {Below(NeAddress, p), Below(n.leaf, p), Below(OtherAddress(KEY_NIBBLES), p), Below(NeAddress, p + 1)}

\* the prover fills the row (is_wrong_leaf in s_rlp1, the key-length byte as
\* in the leaf's row or one more) and address_rlc (the RLC of the enquired
\* address, of the leaf's address, or another value), and
\* AccountNonExistingConfig::assign writes its three cells
FillNonExistingRow ==
    /\ ne.phase = "trie"
    /\ \E wl \in {0, 1}, len_off \in {0, 1}, nibs \in RowNibbleTries(ne) :
         \E addr \in {AddressRlc(NeAddress), AddressRlc(ne.path \o nibs), FAdd(AddressRlc(NeAddress), 1)} :
            LET r == [AccountKeyRow(wl, nibs) EXCEPT ![3] = @ + len_off]
                a == non_existing_assign(ne.row_prev, r)
            IN ne' = [ne EXCEPT !.phase = "assigned", !.row = r, !.address_rlc = addr,
                                !.sum = a.sum, !.sum_prev = a.sum_prev, !.diff_inv = a.diff_inv,
                                !.panicked = a.panicked]
    /\ UNCHANGED <<accVars, ext, chain, trace, node, asg, ld, sl, nb, bc, sr>>

\* the gates hold on the row
VerifyNonExisting ==
    /\ ne.phase = "assigned"
    /\ ~ne.panicked
    /\ AllZero(AccountNonExistingGates(ne))
    /\ ne' = [ne EXCEPT !.phase = "accepted"]
    /\ UNCHANGED <<accVars, ext, chain, trace, node, asg, ld, sl, nb, bc, sr>>

NextWrongLeaf == FillNonExistingRow \/ VerifyNonExisting

SpecWrongLeaf == InitWrongLeaf /\ [][NextWrongLeaf]_vars

---------------------------------------------------------------------------
(* C16: the address of a wrong-leaf proof *)

NeAccepted == ne.phase = "accepted"

\* the nibbles a key row holds: its key bytes without the leading 32, or
\* the nibble in the leading byte and those of the bytes that follow
RowNibbles(r) ==
    LET key_len == s_bytes(r, 0) - 128
        rest == [k \in 1..(2 * (key_len - 1)) |->
                    IF k % 2 = 1 THEN get_byte(r, 3 + (k + 1) \div 2) \div 16
                    ELSE get_byte(r, 3 + k \div 2) % 16]
    IN IF s_bytes(r, 1) = 32 THEN rest ELSE <<s_bytes(r, 1) - 48>> \o rest

---------------------------------------------------------------------------
(* C17: the key lengths of a wrong-leaf proof *)

---------------------------------------------------------------------------
(* C18: the nil object in the parent branch *)

\* the constraints that carry the factor is_wrong_leaf
WrongLeafConstraints(c) ==
    SubSeq(ane_not_first_level(c), 1, 5) \o ane_first_level(c) \o ane_same_length(c)

\* C18: an accepted non-existing-account proof is a wrong-leaf proof or has
\* a nil object at modified_node in the parent branch: with
\* is_wrong_leaf = 0 the parent's nil-object flag is 1, and none of the
\* wrong-leaf constraints bears on the row
C18_WrongLeafOrNil ==
    NeAccepted =>
        /\ s_rlp1(ne.row) = 1 \/ ne.is_nil_object = 1
        /\ s_rlp1(ne.row) = 0 =>
              \A a, d \in {0, 1} :
                 AllZero(WrongLeafConstraints([ne EXCEPT !.address_rlc = FAdd(@, a), !.diff_inv = d]))

---------------------------------------------------------------------------
(* C19: assign on equal keys *)

NeFilled == ne.phase \in {"assigned", "accepted"}

----------------------------------------------------------------------------
(***************************************************************************)
(* The row loop of assign (mpt.rs).  The witness is a sequence of rows,    *)
(* the rows of one proof after those of the proof before it; assign walks  *)
(* the rows that are not merely to be hashed, keeps the accumulator state  *)
(* pv across them and starts it anew where it sees the first level begin.  *)
(* A row is kept by its type, its not_first_level byte and (in a branch    *)
(* init row) the modified node; an account leaf stands with its rows       *)
(* AccountLeafKeyS, AccountLeafKeyC and AccountLeafNeighbouringLeaf, a     *)
(* branch with its init row and one child row.                             *)
(***************************************************************************)

\* ProofValues::new()
ProofValuesNew == [key_rlc |-> 0, key_rlc_mult |-> 1, key_rlc_prev |-> 0, key_rlc_mult_prev |-> 1, mult_diff |-> 1, key_rlc_sel |-> TRUE, before_account_leaf |-> TRUE, nibbles_num |-> 0]

\* the key accumulator after a branch: the values the gate "Branch key RLC"
\* asks of the cells assign fills from pv (modified_node weighed by 16 under
\* key_rlc_sel and by 1 otherwise, the multiplier advanced after the second
\* nibble of a byte, the selector turned over, one nibble more)
assign_branch_key(pv, modified_node) ==
    IF pv.key_rlc_sel
    THEN [pv EXCEPT !.key_rlc_prev = pv.key_rlc, !.key_rlc_mult_prev = pv.key_rlc_mult,
                    !.key_rlc = FAdd(pv.key_rlc, FMul(FMul(16, modified_node), pv.key_rlc_mult)),
                    !.key_rlc_sel = FALSE, !.nibbles_num = @ + 1]
    ELSE [pv EXCEPT !.key_rlc_prev = pv.key_rlc, !.key_rlc_mult_prev = pv.key_rlc_mult,
                    !.key_rlc = FAdd(pv.key_rlc, FMul(modified_node, pv.key_rlc_mult)),
                    !.key_rlc_mult = FMul(pv.key_rlc_mult, acc_r),
                    !.key_rlc_sel = TRUE, !.nibbles_num = @ + 1]

\* what the body of the loop does to pv for the row r, after the check for
\* the first level
assign_row(pv, r) ==
    LET pv1 == IF r.typ = "AccountLeafKeyS" THEN [pv EXCEPT !.before_account_leaf = FALSE] ELSE pv
    IN IF r.typ = "InitBranch" THEN assign_branch_key(pv1, r.modified_node)
       ELSE IF r.typ = "AccountLeafNeighbouringLeaf"
            THEN [pv1 EXCEPT !.key_rlc = 0, !.key_rlc_mult = 1, !.key_rlc_prev = 0, !.key_rlc_mult_prev = 1, !.key_rlc_sel = TRUE, !.nibbles_num = 0]
            ELSE pv1

\* pv as the loop has it when it derives the values of the row r at offset:
\* a fresh one where r is in the first level and the row at offset - 1 of the
\* witness is not
assign_first_level(pv, witness, offset, r) ==
    IF offset > 0 /\ r.not_first_level = 0 /\ witness[offset].not_first_level = 1
    THEN ProofValuesNew
    ELSE pv

WitnessRow(t, nfl, mn) == [typ |-> t, not_first_level |-> nfl, modified_node |-> mn]

\* the rows of an account leaf and of a branch
AccountLeafRows(nfl) == <<WitnessRow("AccountLeafKeyS", nfl, 0), WitnessRow("AccountLeafKeyC", nfl, 0), WitnessRow("AccountLeafNeighbouringLeaf", nfl, 0)>>

BranchRows(nfl, mn) == <<WitnessRow("InitBranch", nfl, mn), WitnessRow("BranchChild", nfl, 0)>>

\* the proofs of the witness: an account leaf that is the whole account trie,
\* the same with a storage leaf under it, an account leaf under a branch, the
\* same with a storage leaf under a branch of the storage trie
ProofSample ==
    {AccountLeafRows(0), AccountLeafRows(0) \o <<WitnessRow("StorageLeafSKey", 1, 0)>>}
        \cup {BranchRows(0, mn) \o AccountLeafRows(1) : mn \in NibbleSample}
        \cup {BranchRows(0, mn) \o AccountLeafRows(1) \o BranchRows(1, mn) \o <<WitnessRow("StorageLeafSKey", 1, 0)>> : mn \in NibbleSample}

RECURSIVE Flatten(_)
Flatten(ps) == IF ps = <<>> THEN <<>> ELSE Head(ps) \o Flatten(Tail(ps))

\* the offsets at which the proofs ps begin in their witness
RECURSIVE ProofStarts(_, _)
ProofStarts(ps, at) == IF ps = <<>> THEN {} ELSE {at} \cup ProofStarts(Tail(ps), at + Len(Head(ps)))

\* the sequence s with the row h put in after its first at rows
InsertAt(s, at, h) == SubSeq(s, 1, at) \o <<h>> \o SubSeq(s, at + 1, Len(s))

\* the witnesses handed to assign: the rows of the proofs ps, and the same
\* with a row that is only to be hashed somewhere among them (such a row's
\* byte at the place of not_first_level is whatever the hashed stream holds)
Witnesses(ps) ==
    LET rows == Flatten(ps)
    IN {rows} \cup {InsertAt(rows, at, WitnessRow("HashToBeComputed", b, 0)) : at \in 0..Len(rows), b \in {0, 1}}

\* the rows of w that assign's filter lets through
RECURSIVE FilterHashed(_)
FilterHashed(w) ==
    IF w = <<>> THEN <<>>
    ELSE IF Head(w).typ = "HashToBeComputed" THEN FilterHashed(Tail(w))
         ELSE <<Head(w)>> \o FilterHashed(Tail(w))

\* no row has been read as the previous row
NoRow == WitnessRow("none", 0, 0)

\* assign is entered: offset 0, pv = ProofValues::new()
AssignInit ==
    \E n \in 1..MaxProofs :
      \E ps \in [1..n -> ProofSample] :
        \E w \in Witnesses(ps) :
         asg = [phase |-> "loop", witness |-> w, starts |-> ProofStarts(ps, 0),
                ind |-> 0, offset |-> 0, cur |-> -1, row |-> NoRow, row_prev |-> NoRow,
                pv |-> ProofValuesNew, used |-> ProofValuesNew, left |-> ProofValuesNew]

InitAssign == AccIdle /\ NonExistingIdle /\ ExtIdle /\ RootIdle /\ NodeIdle /\ LoadIdle /\ LeafShapeIdle /\ NonceBalanceIdle /\ BaseConversionIdle /\ StorageRootIdle /\ TraceIdle /\ AssignInit

\* one turn of the loop: the next row that is not only to be hashed is
\* assigned at offset (used is pv as the row's values are derived from it,
\* left is pv as the row before left it, row the row assigned, row_prev the
\* row read as witness[offset - 1])
AssignRow ==
    /\ asg.phase = "loop"
    /\ asg.ind < Len(asg.witness)
    /\ LET r == asg.witness[asg.ind + 1]
           pv0 == assign_first_level(asg.pv, asg.witness, asg.offset, r)
       IN /\ r.typ # "HashToBeComputed"
          /\ asg' = [asg EXCEPT !.ind = @ + 1, !.offset = @ + 1, !.cur = asg.offset, !.row = r,
                                !.row_prev = IF asg.offset > 0 THEN asg.witness[asg.offset] ELSE NoRow,
                                !.used = pv0, !.left = asg.pv, !.pv = assign_row(pv0, r)]
    /\ UNCHANGED <<accVars, ne, ext, chain, trace, node, ld, sl, nb, bc, sr>>

\* the filter of the loop: a row that is only to be hashed is passed over
SkipHashToBeComputed ==
    /\ asg.phase = "loop"
    /\ asg.ind < Len(asg.witness)
    /\ asg.witness[asg.ind + 1].typ = "HashToBeComputed"
    /\ asg' = [asg EXCEPT !.ind = @ + 1]
    /\ UNCHANGED <<accVars, ne, ext, chain, trace, node, ld, sl, nb, bc, sr>>

NextAssign == AssignRow \/ SkipHashToBeComputed

SpecAssign == InitAssign /\ [][NextAssign]_vars

----------------------------------------------------------------------------
\* a row has been assigned
RowAssigned == asg.phase = "loop" /\ asg.cur >= 0

\* C20: at the first assigned row of every chained proof after the first, the
\* values of the row are derived from a fresh ProofValues::new() (key_rlc 0,
\* key_rlc_mult 1, the c16 convention, no nibbles, before_account_leaf true);
\* at every other row they are derived from the state the previous row left.
C20_ResetAtProofStart ==
    RowAssigned =>
        IF asg.cur > 0 /\ asg.cur \in asg.starts
        THEN asg.used = ProofValuesNew
        ELSE asg.used = asg.left


----------------------------------------------------------------------------
\* pv as assign has it when it derives the values of the row at offset k of
\* the witness w, w holding no row that is only to be hashed
RECURSIVE UsedAt(_, _)
UsedAt(w, k) ==
    LET left == IF k = 0 THEN ProofValuesNew ELSE assign_row(UsedAt(w, k - 1), w[k])
    IN assign_first_level(left, w, k, w[k + 1])

\* C21: rows that are only to be hashed do not bear on the trace: the k-th
\* of the other rows is assigned at offset k, the row read as its previous
\* row and the accumulator state its values are derived from are those of
\* the witness with the hash-only rows removed.
C21_HashRowsExcluded ==
    RowAssigned =>
        LET w == FilterHashed(asg.witness)
        IN /\ asg.row = w[asg.cur + 1]
           /\ asg.row_prev = (IF asg.cur > 0 THEN w[asg.cur] ELSE NoRow)
           /\ asg.used = UsedAt(w, asg.cur)


----------------------------------------------------------------------------
(***************************************************************************)
(* load (mpt.rs): the hash-relation table and the fixed table are filled,  *)
(* each in a region of its own, row after row.  An assignment to a row     *)
(* that is not among the usable rows of the circuit fails; the loader      *)
(* returns that error at once (the ? of every assign_fixed), and load goes *)
(* on with what the loaders' results are made into.  A cell that is never  *)
(* assigned holds 0.                                                       *)
(***************************************************************************)

\* the discriminants of FixedTableTag
RMult == 0

Range16 == 1

Range256 == 2

RangeKeyLen256 == 3

\* the number of byte values and of nibble values that load_fixed_table ranges over
ByteValues == 256

NibbleValues == 16

\* the rows of the multiplier powers: (RMult, ind, mult) for ind in
\* 0..(2 * HASH_WIDTH + 1), mult starting at 1 and multiplied by acc_r after
\* every row
RECURSIVE rmult_rows(_, _)
rmult_rows(ind, m) ==
    IF ind >= 2 * HASH_WIDTH + 1 THEN <<>>
    ELSE <<<<RMult, ind, m>>>> \o rmult_rows(ind + 1, FMul(m, acc_r))

\* a variant whose byte range stops one short
fixed_table_rows_mut ==
    rmult_rows(0, 1) \o [ind \in 1..(ByteValues - 1) |-> <<Range256, ind - 1, 0>>] \o [ind \in 1..NibbleValues |-> <<Range16, ind - 1, 0>>]

\* the rows load_fixed_table assigns, in the order of their offsets: the
\* multiplier powers, the bytes, the nibbles (the loop over RangeKeyLen256 is
\* commented out in the source); the third cell of a range row is left
\* unassigned
fixed_table_rows ==
    rmult_rows(0, 1) \o [ind \in 1..ByteValues |-> <<Range256, ind - 1, 0>>] \o [ind \in 1..NibbleValues |-> <<Range16, ind - 1, 0>>]

\* a stand-in for the digest: HASH_WIDTH bytes that depend on the message
compute_keccak(msg) == [i \in 1..HASH_WIDTH |-> (bytes_into_rlc(msg) + 7 * i) % 256]

\* the row of the hash-relation table for the stream t
keccak_table_row(t) == <<bytes_into_rlc(t), bytes_into_rlc(compute_keccak(t))>>

\* the streams to be hashed
ToBeHashedSample == {<<>>, <<<<1, 2>>>>, <<<<1, 2>>, <<200>>>>}

\* the numbers of usable rows: none, fewer than the streams, fewer than the
\* multiplier powers, fewer than the fixed table, enough
UsableRowsSample == {0, 1, HASH_WIDTH, ByteValues, 2 * HASH_WIDTH + 1 + ByteValues + NibbleValues}

\* load is entered
LoadInit ==
    \E t \in ToBeHashedSample, u \in UsableRowsSample :
        ld = [phase |-> "keccak", to_be_hashed |-> t, usable_rows |-> u, offset |-> 0,
              keccak_table |-> <<>>, fixed_table |-> <<>>,
              keccak_result |-> "none", fixed_result |-> "none", result |-> "none"]

InitLoad == AccIdle /\ NonExistingIdle /\ ExtIdle /\ RootIdle /\ NodeIdle /\ AssignIdle /\ LeafShapeIdle /\ NonceBalanceIdle /\ BaseConversionIdle /\ StorageRootIdle /\ TraceIdle /\ LoadInit

\* load_keccak_table: the next stream's row is assigned at offset, the loader
\* returns Ok after the last and the error of the first assignment that fails
LoadKeccakRow ==
    /\ ld.phase = "keccak"
    /\ ld' = IF ld.offset >= Len(ld.to_be_hashed)
             THEN [ld EXCEPT !.phase = "fixed", !.offset = 0, !.keccak_result = "Ok"]
             ELSE IF ld.offset >= ld.usable_rows
                  THEN [ld EXCEPT !.phase = "fixed", !.offset = 0, !.keccak_result = "Err"]
                  ELSE [ld EXCEPT !.offset = @ + 1, !.keccak_table = Append(@, keccak_table_row(ld.to_be_hashed[ld.offset + 1]))]
    /\ UNCHANGED <<accVars, ne, ext, chain, trace, node, asg, sl, nb, bc, sr>>

\* load_fixed_table: the next row is assigned at offset, the loader returns
\* Ok after the last and the error of the first assignment that fails
LoadFixedRow ==
    /\ ld.phase = "fixed"
    /\ ld' = IF ld.offset >= Len(fixed_table_rows)
             THEN [ld EXCEPT !.phase = "loaded", !.fixed_result = "Ok"]
             ELSE IF ld.offset >= ld.usable_rows
                  THEN [ld EXCEPT !.phase = "loaded", !.fixed_result = "Err"]
                  ELSE [ld EXCEPT !.offset = @ + 1, !.fixed_table = Append(@, fixed_table_rows[ld.offset + 1])]
    /\ UNCHANGED <<accVars, ne, ext, chain, trace, node, asg, sl, nb, bc, sr>>

\* load returns: the loaders' results went through .ok(), whose value is
\* dropped, and the function ends in Ok(())
LoadReturn ==
    /\ ld.phase = "loaded"
    /\ ld' = [ld EXCEPT !.phase = "returned", !.result = "Ok"]
    /\ UNCHANGED <<accVars, ne, ext, chain, trace, node, asg, sl, nb, bc, sr>>

NextLoad == LoadKeccakRow \/ LoadFixedRow \/ LoadReturn

SpecLoad == InitLoad /\ [][NextLoad]_vars

----------------------------------------------------------------------------
\* load has returned
LoadReturned == ld.phase = "returned"

\* C22: a failure while the fixed table or the hash-relation table is filled
\* makes load return an error; no such error is dropped with the run going
\* on as if the tables were there.
C22_LoadReportsFailure ==
    LoadReturned =>
        ((ld.keccak_result = "Err" \/ ld.fixed_result = "Err") => ld.result = "Err")


----------------------------------------------------------------------------
\* the rows of the fixed table t that carry the tag
RowsOfTag(t, tag) == {t[k] : k \in {j \in 1..Len(t) : t[j][1] = tag}}

\* the tags the lookups registered in the sources at hand refer to:
\* mult_diff_lookup (RMult) and range_lookups with Range256; every call of
\* key_len_lookup (RangeKeyLen256) is commented out
RegisteredLookupTags == {RMult, Range256}

\* load_fixed_table has returned Ok
FixedTableLoaded == ld.phase \in {"loaded", "returned"} /\ ld.fixed_result = "Ok"

\* C23: after load_fixed_table the fixed table has a byte-range row for every
\* value in [0, 256) and for no other, a nibble-range row for every value in
\* [0, 16) and for no other, and a multiplier row (n, r^n) for every length n
\* in [0, HASH_WIDTH]; every tag a registered lookup refers to has rows.
C23_FixedTable ==
    FixedTableLoaded =>
        /\ {x[2] : x \in RowsOfTag(ld.fixed_table, Range256)} = 0..(ByteValues - 1)
        /\ {x[2] : x \in RowsOfTag(ld.fixed_table, Range16)} = 0..(NibbleValues - 1)
        /\ \A n \in 0..HASH_WIDTH : <<RMult, n, FPow(acc_r, n)>> \in RowsOfTag(ld.fixed_table, RMult)
        /\ \A tag \in RegisteredLookupTags : RowsOfTag(ld.fixed_table, tag) # {}

\* the fixed table has been loaded in full and load has returned
C23_Witness ==
    /\ FixedTableLoaded
    /\ LoadReturned
    /\ Len(ld.fixed_table) = 2 * HASH_WIDTH + 1 + ByteValues + NibbleValues
    /\ <<Range256, ByteValues - 1, 0>> \in RowsOfTag(ld.fixed_table, Range256)


----------------------------------------------------------------------------
(***************************************************************************)
(* The storage leaf key row by itself: assign_long_short writes the two    *)
(* flags of the leaf's shape (mpt.rs), the gate "Storage leaf RLC"         *)
(* (leaf_key.rs) reads them with s_rlp1, s_rlp2 and acc.  The prover may   *)
(* fill the cells with values of its own.                                  *)
(***************************************************************************)

\* gate "Storage leaf RLC", the constraints "Leaf key acc" and "Leaf key acc
\* last level"
leaf_acc(l) ==
    LET last_level == FMul(l.flag1, l.flag2)
        is_long == FMul(l.flag1, FNot(l.flag2))
        is_short == FMul(FNot(l.flag1), l.flag2)
        rlc_last_level == FAdd(s_rlp1(l.row), FMul(s_rlp2(l.row), r_table(0)))
        upto_bytes == FAdd(rlc_last_level, compute_rlc([k \in 1..HASH_WIDTH |-> s_bytes(l.row, k - 1)], 1, 1))
        upto_c_rlp1 == FAdd(upto_bytes, FMul(FMul(c_rlp1(l.row), r_table(R_TABLE_LEN - 1)), r_table(1)))
        rlc == FAdd(upto_c_rlp1, FMul(FMul(c_rlp2(l.row), r_table(R_TABLE_LEN - 1)), r_table(2)))
    IN << FProd(<<l.q_enable, FAdd(is_short, is_long), FSub(rlc, l.acc)>>),
          FProd(<<l.q_enable, last_level, FSub(rlc_last_level, l.acc)>>) >>

\* the values of acc the prover tries: the RLC of the row's bytes, that of
\* its first two bytes, and 0
LeafAccTries(r) ==
    LET two == FAdd(s_rlp1(r), FMul(s_rlp2(r), r_table(0)))
        upto_bytes == FAdd(two, compute_rlc([k \in 1..HASH_WIDTH |-> s_bytes(r, k - 1)], 1, 1))
        upto_c_rlp1 == FAdd(upto_bytes, FMul(FMul(c_rlp1(r), r_table(R_TABLE_LEN - 1)), r_table(1)))
    IN {0, two, FAdd(upto_c_rlp1, FMul(FMul(c_rlp2(r), r_table(R_TABLE_LEN - 1)), r_table(2)))}

\* a storage leaf key row is laid out for a leaf of one of the shapes its
\* nibbles allow; the flag cells and acc hold 0
LeafShapeInit ==
    \E n \in 0..KEY_NIBBLES :
      \E typ \in LeafTypes(LeafNibbles(n)) :
        sl = [phase |-> "row", typ |-> typ, q_enable |-> 1, row |-> LeafRow(LeafNibbles(n), typ),
              flag1 |-> 0, flag2 |-> 0, acc |-> 0, written |-> FALSE]

InitLeafShape == AccIdle /\ NonExistingIdle /\ ExtIdle /\ RootIdle /\ NodeIdle /\ AssignIdle /\ LoadIdle /\ NonceBalanceIdle /\ BaseConversionIdle /\ StorageRootIdle /\ TraceIdle /\ LeafShapeInit

\* assign_long_short(typ) writes flag1 into s_mod_node_rlc and flag2 into
\* c_mod_node_rlc; acc is filled with the RLC that goes with the shape
AssignLongShort ==
    /\ sl.phase = "row"
    /\ \E a \in LeafAccTries(sl.row) :
         sl' = [sl EXCEPT !.phase = "filled", !.written = TRUE, !.acc = a,
                          !.flag1 = assign_long_short(sl.typ).flag1, !.flag2 = assign_long_short(sl.typ).flag2]
    /\ UNCHANGED <<accVars, ne, ext, chain, trace, node, asg, ld, nb, bc, sr>>

\* the prover fills the flags, the first two bytes and acc as it likes
FillLeafShape ==
    /\ sl.phase = "row"
    /\ \E f1, f2 \in {0, 1, 2}, b1 \in {s_rlp1(sl.row), 248}, b2 \in {s_rlp2(sl.row), 32} :
         LET r == [sl.row EXCEPT ![1] = b1, ![2] = b2]
         IN \E a \in LeafAccTries(r) :
              sl' = [sl EXCEPT !.phase = "filled", !.row = r, !.flag1 = f1, !.flag2 = f2, !.acc = a]
    /\ UNCHANGED <<accVars, ne, ext, chain, trace, node, asg, ld, nb, bc, sr>>

\* the gate "Storage leaf RLC" is evaluated on the row
VerifyLeafShape ==
    /\ sl.phase = "filled"
    /\ sl' = [sl EXCEPT !.phase = IF AllZero(leaf_flags(sl)) /\ AllZero(leaf_acc(sl)) THEN "accepted" ELSE "rejected"]
    /\ UNCHANGED <<accVars, ne, ext, chain, trace, node, asg, ld, nb, bc, sr>>

NextLeafShape == AssignLongShort \/ FillLeafShape \/ VerifyLeafShape

SpecLeafShape == InitLeafShape /\ [][NextLeafShape]_vars

----------------------------------------------------------------------------
\* the three shapes as pairs (flag1, flag2): short, long, last level
ShapeClasses == {<<0, 1>>, <<1, 0>>, <<1, 1>>}

\* the row has been accepted by the gate
LeafShapeRowAccepted == sl.phase = "accepted"

\* what the gate leaves of an accepted row: one of the three shapes, 248 in
\* s_rlp1 of a long leaf, 32 in s_rlp2 of a leaf in the last level
AcceptedShape ==
    LeafShapeRowAccepted =>
        /\ <<sl.flag1, sl.flag2>> \in ShapeClasses
        /\ <<sl.flag1, sl.flag2>> = <<1, 0>> => s_rlp1(sl.row) = 248
        /\ <<sl.flag1, sl.flag2>> = <<1, 1>> => s_rlp2(sl.row) = 32

\* C24: every storage leaf key row the constraints accept, and every pair of
\* flags assign_long_short writes, is exactly one of short (0, 1), long
\* (1, 0), last level (1, 1); long implies s_rlp1 = 248 and last level
\* implies s_rlp2 = 32.
C24_ThreeShapes ==
    /\ AcceptedShape
    /\ (sl.phase # "idle" /\ sl.written) => <<sl.flag1, sl.flag2>> \in ShapeClasses


----------------------------------------------------------------------------
(***************************************************************************)
(* account_leaf_nonce_balance.rs: the gate "Account leaf nonce balance RLC *)
(* & RLP" and the two lookups of the multiplier.  The chip is configured   *)
(* twice, for the row ACCOUNT_LEAF_NONCE_BALANCE_S (is_s) and for the row  *)
(* ACCOUNT_LEAF_NONCE_BALANCE_C.  c holds the row (nonce in s_main,        *)
(* balance in c_main), its cells acc, acc_mult_final (acc_mult_s),         *)
(* acc_mult_after_nonce (acc_mult_c), mult_diff_nonce, mult_diff_balance,  *)
(* nonce_stored (s_mod_node_hash_rlc), balance_stored                      *)
(* (c_mod_node_hash_rlc), sel1 and sel2, the cells of the side's key row   *)
(* (acc_prev, acc_mult_prev, is_nonce_long = sel1, is_balance_long = sel2, *)
(* key_len_byte = s_main.bytes[0], rlp_len = s_rlp2), is_wrong_leaf of the *)
(* ACCOUNT_NON_EXISTING row, the proof type cells, and the cells           *)
(* nonce_stored and balance_stored of the row before.                      *)
(***************************************************************************)

\* the nonce's bytes after the one with the length, as an RLC
nonce_value_long_rlc(c) ==
    FAdd(s_bytes(c.row, 1), compute_rlc([k \in 1..(HASH_WIDTH - 2) |-> s_bytes(c.row, k + 1)], 0, 1))

\* the balance's bytes after the one with the length, as an RLC
balance_value_long_rlc(c) ==
    FAdd(c_bytes(c.row, 1), compute_rlc([k \in 1..(HASH_WIDTH - 2) |-> c_bytes(c.row, k + 1)], 0, 1))

\* "Bool check is_nonce_long", "Bool check is_balance_long", the bytes after
\* the first are 0 in a short nonce and in a short balance, "is_wrong_leaf is
\* bool"
nb_flags(c) ==
    << get_bool_constraint(c.q_enable, c.is_nonce_long),
       get_bool_constraint(c.q_enable, c.is_balance_long) >>
    \o [ind \in 1..(HASH_WIDTH - 1) |-> FProd(<<c.q_enable, FNot(c.is_nonce_long), s_bytes(c.row, ind)>>)]
    \o [ind \in 1..(HASH_WIDTH - 1) |-> FProd(<<c.q_enable, FNot(c.is_balance_long), c_bytes(c.row, ind)>>)]
    \o << FProd(<<c.q_enable, FNot(c.is_wrong_leaf), c.is_wrong_leaf>>) >>

\* "nonce RLC long", "nonce RLC short", "balance RLC long", "balance RLC short"
nb_stored(c) ==
    << FProd(<<c.q_enable, c.is_nonce_long, FSub(nonce_value_long_rlc(c), c.nonce_stored)>>),
       FProd(<<c.q_enable, FNot(c.is_nonce_long), FSub(s_bytes(c.row, 0), c.nonce_stored)>>),
       FProd(<<c.q_enable, c.is_balance_long, FSub(balance_value_long_rlc(c), c.balance_stored)>>),
       FProd(<<c.q_enable, FNot(c.is_balance_long), FSub(c_bytes(c.row, 0), c.balance_stored)>>) >>

\* the constraints of the C row only: "nonce prev RLC", "balance prev RLC",
\* "if storage / codehash / balance mod: nonce_s = nonce_c", "if storage /
\* codehash / nonce mod: balance_s = balance_c"
nb_prev(c) ==
    IF c.is_s THEN <<>>
    ELSE << FMul(c.q_enable, FSub(c.nonce_s_from_prev, c.nonce_s_from_cur)),
            FMul(c.q_enable, FSub(c.balance_s_from_prev, c.balance_s_from_cur)),
            FProd(<<c.q_enable, FAdd(c.is_storage_mod, c.is_balance_mod), FNot(c.is_account_delete_mod), FSub(c.nonce_s_from_cur, c.nonce_stored)>>),
            FProd(<<c.q_enable, FAdd(c.is_storage_mod, c.is_nonce_mod), FNot(c.is_account_delete_mod), FSub(c.balance_s_from_cur, c.balance_stored)>>) >>

\* "leaf nonce balance acc": the RLC of the row's bytes onto acc_prev
nb_acc(c) ==
    LET amp == c.acc_mult_prev
        nonce_rlc == FAdd(FMul(FAdd(s_bytes(c.row, 0), FMul(nonce_value_long_rlc(c), r_table(0))), c.is_nonce_long),
                          FMul(s_bytes(c.row, 0), FNot(c.is_nonce_long)))
        balance_rlc == FAdd(FMul(FAdd(c_bytes(c.row, 0), FMul(balance_value_long_rlc(c), r_table(0))), c.is_balance_long),
                            FMul(c_bytes(c.row, 0), FNot(c.is_balance_long)))
        e1 == FAdd(c.acc_prev, FMul(s_rlp1(c.row), amp))
        e2 == FAdd(e1, FProd(<<s_rlp2(c.row), amp, r_table(0)>>))
        e3 == FAdd(e2, FProd(<<c_rlp1(c.row), amp, r_table(1)>>))
        e4 == FAdd(e3, FProd(<<c_rlp2(c.row), amp, r_table(2)>>))
        e5 == FAdd(e4, FProd(<<nonce_rlc, r_table(3), amp>>))
        expr == FAdd(e5, FMul(balance_rlc, c.acc_mult_after_nonce))
    IN << FMul(c.q_enable, FSub(expr, c.acc)) >>

\* "leaf nonce acc mult (nonce long)", "leaf nonce acc mult (nonce short)",
\* "leaf nonce acc mult"
nb_mult(c) ==
    << FProd(<<c.q_enable, c.is_nonce_long, FSub(c.acc_mult_after_nonce, FMul(c.acc_mult_prev, c.mult_diff_nonce))>>),
       FProd(<<c.q_enable, FNot(c.is_nonce_long), FSub(c.acc_mult_after_nonce, FMul(c.acc_mult_prev, r_table(4)))>>),
       FMul(c.q_enable, FSub(c.acc_mult_final, FMul(c.acc_mult_after_nonce, c.mult_diff_balance))) >>

\* "leaf nonce balance c_rlp1", "RLP 1" .. "RLP 4", "account leaf RLP length"
nb_rlp(c) ==
    LET on == FMul(c.q_enable, FSub(FSub(c.is_non_existing_account_proof, c.is_wrong_leaf), 1))
        key_len == FSub(c.key_len_byte, 128)
        nonce_len == FAdd(FMul(FAdd(FSub(s_bytes(c.row, 0), 128), 1), c.is_nonce_long), FNot(c.is_nonce_long))
        balance_len == FAdd(FMul(FAdd(FSub(c_bytes(c.row, 0), 128), 1), c.is_balance_long), FNot(c.is_balance_long))
    IN << FMul(on, FSub(c_rlp1(c.row), 248)),
          FMul(on, FSub(s_rlp1(c.row), 184)),
          FMul(on, FSub(c_rlp1(c.row), 248)),
          FMul(on, FSub(FSub(FSub(s_rlp2(c.row), c_rlp2(c.row)), 1), 1)),
          FMul(on, FSub(FSub(FSub(c_rlp2(c.row), nonce_len), balance_len), 66)),
          FMul(on, FSub(FSub(FSub(FSub(FSub(c.rlp_len, key_len), 1), s_rlp2(c.row)), 1), 1)) >>

\* helpers.rs mult_diff_lookup: the triple looked up in the fixed table
mult_diff_lookup(q_enable, addition, key_len_cell, mult_diff, key_len_offset) ==
    << RMult, FMul(q_enable, FAdd(FSub(key_len_cell, key_len_offset), addition)), FMul(q_enable, mult_diff) >>

\* the lookup "mult_diff_nonce corresponds to nonce length"
nb_nonce_lookup(c) == mult_diff_lookup(FMul(c.q_enable, c.is_nonce_long), 5, s_bytes(c.row, 0), c.mult_diff_nonce, 128)

\* the lookup "mult_diff_balance corresponds to balance length"; its selector
\* q_enable_balance_long queries sel1 of the key row, the cell of
\* is_nonce_long
nb_balance_lookup(c) == mult_diff_lookup(FMul(c.q_enable, c.is_nonce_long), 1, c_bytes(c.row, 0), c.mult_diff_balance, 128)

\* the rows of the fixed columns: those load_fixed_table assigns, and a row
\* of zeros for the rows it does not assign
FixedTableCells == {fixed_table_rows[k] : k \in 1..Len(fixed_table_rows)} \cup {<<0, 0, 0>>}


\* the gate and the lookups accept the cells c
NonceBalanceAccepted(c) ==
    /\ AllZero(nb_flags(c))
    /\ AllZero(nb_stored(c))
    /\ AllZero(nb_prev(c))
    /\ AllZero(nb_acc(c))
    /\ AllZero(nb_mult(c))
    /\ AllZero(nb_rlp(c))
    /\ nb_nonce_lookup(c) \in FixedTableCells
    /\ nb_balance_lookup(c) \in FixedTableCells
    /\ \A k \in 1..WITNESS_ROW_WIDTH : k # C_RLP_START + 1 => <<Range256, FMul(c.q_enable, c.row[k])>> \in {<<t[1], t[2]>> : t \in FixedTableCells}

\* a nonce or a balance in the cells of s_main.bytes or c_main.bytes: a value
\* below 128 by itself, 0 as 128, a longer one after 128 + its length
ShortValue(b) == [k \in 1..HASH_WIDTH |-> IF k = 1 THEN b ELSE 0]

LongValue(bytes) == [k \in 1..HASH_WIDTH |-> IF k = 1 THEN 128 + Len(bytes) ELSE IF k - 1 <= Len(bytes) THEN bytes[k - 1] ELSE 0]

NonceSample == {ShortValue(7), ShortValue(128), LongValue(<<200>>)}

BalanceSample == {ShortValue(9), ShortValue(128), LongValue(<<201>>), LongValue(<<1, 2>>)}

\* the number of bytes the value takes in the leaf's RLP
ValueBytes(v) == IF v[1] > 128 THEN 1 + (v[1] - 128) ELSE 1

\* the nonce/balance row of an account with this nonce and this balance
NonceBalanceRow(nonce, balance) ==
    LET c2 == ValueBytes(nonce) + ValueBytes(balance) + 66
    IN <<184, c2 + 2>> \o nonce \o <<248, c2>> \o balance

\* the proof types, as the cells of proof_type hold them
ProofTypes == {"storage", "nonce", "balance", "codehash", "account_delete"}

\* the cells the gate and the lookups query for the row r of the side is_s,
\* the cells filled by the prover being those of f
NonceBalanceCells(n, is_s, r, f) ==
    [q_enable |-> 1, is_s |-> is_s, row |-> r,
     acc_prev |-> n.acc_prev, acc_mult_prev |-> n.acc_mult_prev,
     key_len_byte |-> 128 + HASH_WIDTH, rlp_len |-> HASH_WIDTH + 1 + s_rlp2(r) + 2,
     is_wrong_leaf |-> 0, is_non_existing_account_proof |-> 0,
     is_storage_mod |-> IF n.proof_type = "storage" THEN 1 ELSE 0,
     is_nonce_mod |-> IF n.proof_type = "nonce" THEN 1 ELSE 0,
     is_balance_mod |-> IF n.proof_type = "balance" THEN 1 ELSE 0,
     is_account_delete_mod |-> IF n.proof_type = "account_delete" THEN 1 ELSE 0,
     nonce_s_from_prev |-> IF is_s THEN 0 ELSE n.s.nonce_stored,
     balance_s_from_prev |-> IF is_s THEN 0 ELSE n.s.balance_stored,
     is_nonce_long |-> f.is_nonce_long, is_balance_long |-> f.is_balance_long,
     mult_diff_nonce |-> f.mult_diff_nonce, mult_diff_balance |-> f.mult_diff_balance,
     acc_mult_after_nonce |-> f.acc_mult_after_nonce, acc_mult_final |-> f.acc_mult_final,
     nonce_stored |-> f.nonce_stored, balance_stored |-> f.balance_stored,
     nonce_s_from_cur |-> f.sel1, balance_s_from_cur |-> f.sel2, acc |-> f.acc]

\* the multipliers the prover tries for mult_diff_nonce and for
\* mult_diff_balance
MultDiffNonceTries == {acc_r, FPow(acc_r, 6)}

MultDiffBalanceTries == {acc_r, FPow(acc_r, 2), FPow(acc_r, 3)}

\* the cells of the row r of the side is_s as the prover fills them: the
\* flags first, then the stored values, the multipliers, sel1 and sel2 (of a
\* C row: among the stored values of the S row and its own), each kept if
\* the constraints on it are met, and acc as the gate asks for it
NonceBalanceFills(n, is_s, r) ==
    LET blank == [is_nonce_long |-> 0, is_balance_long |-> 0, mult_diff_nonce |-> 0, mult_diff_balance |-> 0,
                  acc_mult_after_nonce |-> 0, acc_mult_final |-> 0, nonce_stored |-> 0, balance_stored |-> 0,
                  sel1 |-> 0, sel2 |-> 0, acc |-> 0]
        cells(f) == NonceBalanceCells(n, is_s, r, f)
        flagged == {f \in {[blank EXCEPT !.is_nonce_long = a, !.is_balance_long = b] : a, b \in {0, 1}} :
                      AllZero(nb_flags(cells(f))) /\ AllZero(nb_rlp(cells(f)))}
        stored == {f \in {[g EXCEPT !.nonce_stored = a, !.balance_stored = b] :
                              g \in flagged, a \in {r[RLP_NUM + 1], r[RLP_NUM + 2]},
                              b \in {r[C_START + 1], FAdd(r[C_START + 2], FMul(r[C_START + 3], r_table(0)))}} :
                      AllZero(nb_stored(cells(f)))}
        diffs == {f \in {[g EXCEPT !.mult_diff_nonce = a, !.mult_diff_balance = b] :
                              g \in stored, a \in MultDiffNonceTries, b \in MultDiffBalanceTries} :
                      nb_nonce_lookup(cells(f)) \in FixedTableCells /\ nb_balance_lookup(cells(f)) \in FixedTableCells}
        mults == {f \in {[g EXCEPT !.acc_mult_after_nonce = FMul(n.acc_mult_prev, a), !.acc_mult_final = FMul(FMul(n.acc_mult_prev, a), b)] :
                              g \in diffs, a \in MultDiffNonceTries \cup {r_table(4)}, b \in MultDiffBalanceTries} :
                      AllZero(nb_mult(cells(f)))}
        prevs == {f \in {[g EXCEPT !.sel1 = a, !.sel2 = b] :
                              g \in mults,
                              a \in IF is_s THEN {0} ELSE {n.s.nonce_stored, r[RLP_NUM + 1], r[RLP_NUM + 2]},
                              b \in IF is_s THEN {0} ELSE {n.s.balance_stored, r[C_START + 1]}} :
                      AllZero(nb_prev(cells(f)))}
    IN {[f EXCEPT !.acc = nb_acc(cells(f))[1]] : f \in prevs}

\* no cells yet
NoCells == [q_enable |-> 0]

\* the account leaf's key rows are there: the RLC of the leaf so far and its
\* multiplier, the proof type, the account's nonce and balance before
NonceBalanceInit ==
    \E t \in ProofTypes, nonce \in NonceSample, balance \in BalanceSample :
        nb = [phase |-> "key", proof_type |-> t, acc_prev |-> 5, acc_mult_prev |-> FPow(acc_r, 2),
              nonce_s |-> nonce, balance_s |-> balance, s |-> NoCells, c |-> NoCells]

InitNonceBalance == AccIdle /\ NonExistingIdle /\ ExtIdle /\ RootIdle /\ NodeIdle /\ AssignIdle /\ LoadIdle /\ LeafShapeIdle /\ BaseConversionIdle /\ StorageRootIdle /\ TraceIdle /\ NonceBalanceInit

\* the row ACCOUNT_LEAF_NONCE_BALANCE_S is filled and accepted
FillNonceBalanceS ==
    /\ nb.phase = "key"
    /\ LET r == NonceBalanceRow(nb.nonce_s, nb.balance_s)
       IN \E f \in NonceBalanceFills(nb, TRUE, r) :
            LET c == NonceBalanceCells(nb, TRUE, r, f)
            IN /\ NonceBalanceAccepted(c)
               /\ nb' = [nb EXCEPT !.phase = "s_row", !.s = c]
    /\ UNCHANGED <<accVars, ne, ext, chain, trace, node, asg, ld, sl, bc, sr>>

\* the row ACCOUNT_LEAF_NONCE_BALANCE_C is filled and accepted; the account
\* after the modification has the nonce and the balance it had, or others
FillNonceBalanceC ==
    /\ nb.phase = "s_row"
    /\ \E nonce \in {nb.nonce_s, ShortValue(8)}, balance \in {nb.balance_s, LongValue(<<202>>)} :
         LET r == NonceBalanceRow(nonce, balance)
         IN \E f \in NonceBalanceFills(nb, FALSE, r) :
              LET c == NonceBalanceCells(nb, FALSE, r, f)
              IN /\ NonceBalanceAccepted(c)
                 /\ nb' = [nb EXCEPT !.phase = "c_row", !.c = c]
    /\ UNCHANGED <<accVars, ne, ext, chain, trace, node, asg, ld, sl, bc, sr>>

NextNonceBalance == FillNonceBalanceS \/ FillNonceBalanceC

SpecNonceBalance == InitNonceBalance /\ [][NextNonceBalance]_vars


----------------------------------------------------------------------------
\* both nonce/balance rows have been accepted
BothNonceBalanceRows == nb.phase = "c_row"

\* C25: in the accepted nonce/balance C row, a storage, codehash or balance
\* modification has the nonce of the S row as its nonce, and a storage,
\* codehash or nonce modification has the balance of the S row as its
\* balance; the values compared are those stored in the S row.
C25_UnmodifiedFieldsEqual ==
    BothNonceBalanceRows =>
        /\ nb.proof_type \in {"storage", "codehash", "balance"} => nb.c.nonce_stored = nb.s.nonce_stored
        /\ nb.proof_type \in {"storage", "codehash", "nonce"} => nb.c.balance_stored = nb.s.balance_stored

\* the rows accepted so far
AcceptedNonceBalanceRows ==
    IF nb.phase = "s_row" THEN {nb.s} ELSE IF nb.phase = "c_row" THEN {nb.s, nb.c} ELSE {}

\* the number of bytes of the nonce and of the balance of the cells c, as
\* its flags have them: one if short, the length and its byte if long
NonceBytes(c) == IF c.is_nonce_long = 1 THEN 1 + (s_bytes(c.row, 0) - 128) ELSE 1

BalanceBytes(c) == IF c.is_balance_long = 1 THEN 1 + (c_bytes(c.row, 0) - 128) ELSE 1

\* C26: in every accepted nonce/balance row, whichever of nonce and balance
\* is short or long, acc_mult_after_nonce = acc_mult_prev * r^(4 + number of
\* nonce bytes) and acc_mult_final = acc_mult_after_nonce * r^(number of
\* balance bytes).
C26_Multipliers ==
    \A c \in AcceptedNonceBalanceRows :
        /\ c.acc_mult_after_nonce = FMul(c.acc_mult_prev, FPow(acc_r, 4 + NonceBytes(c)))
        /\ c.acc_mult_final = FMul(c.acc_mult_after_nonce, FPow(acc_r, BalanceBytes(c)))

---------------------------------------------------------------------------
(* C27: the counter's step at an extension node and its branch *)

\* the counter of the branch above level i of the trace, taken as 0 in the
\* trie's first level
CounterAbove(i) == IF i = 1 THEN 0 ELSE trace.levels[i - 1].nibbles_count

\* the five shapes of an extension node, by its nibbles and its length
ExtCase(lv) ==
    IF Len(lv.seg) = 1 THEN "one_nibble"
    ELSE IF Len(lv.seg) % 2 = 0 THEN (IF lv.longLen = 0 THEN "even" ELSE "even_longer_than_55")
    ELSE (IF lv.longLen = 0 THEN "odd" ELSE "odd_longer_than_55")

\* C27: the counter of a branch under an extension node is the counter of
\* the branch above (0 in the first level of the account trie and of a
\* storage trie, whatever the rows above hold) plus the nibbles of the
\* extension's segment plus 1, whichever of the five shapes the node has
C27_ExtCounterStep ==
    \A i \in 1..Len(trace.levels) :
        trace.levels[i].seg # <<>>
            => trace.levels[i].nibbles_count = CounterAbove(i) + Len(trace.levels[i].seg) + 1

\* in a storage trie under rows that hold a counter of their own: an odd
\* segment in a node longer than 55 bytes in the first level, then a segment
\* of one nibble
C27_Witness ==
    /\ trace.trie = "storage" /\ trace.above.nibbles_count # 0
    /\ Len(trace.levels) = 2
    /\ ExtCase(trace.levels[1]) = "odd_longer_than_55"
    /\ trace.levels[1].nibbles_count = Len(trace.levels[1].seg) + 1
    /\ ExtCase(trace.levels[2]) = "one_nibble"
    /\ trace.levels[2].nibbles_count = trace.levels[1].nibbles_count + 2

---------------------------------------------------------------------------
(* SpecBaseConversion: keccak256 permutation/base_conversion.rs.  A state  *)
(* of lanes, each a number in the input base (2 or 9), is converted lane   *)
(* by lane into base 13.  A lane has MAX_CHUNKS digits and a lookup        *)
(* converts NUM_CHUNKS digits at once.  The lanes stay below the field's   *)
(* modulus (13^64 < 2^254 in the circuit), so the field's arithmetic is    *)
(* that of the integers here.                                              *)

B2 == 2

B9 == 9

B13 == 13

\* the lanes of a state (25 in the circuit)
LANES == 3

\* BaseInfo.max_chunks: the digits of a lane (64 in the circuit)
MAX_CHUNKS == 5

\* BaseInfo.num_chunks: the digits one row of the conversion table holds
NUM_CHUNKS == 2

RECURSIVE IPow(_, _)
IPow(a, n) == IF n = 0 THEN 1 ELSE a * IPow(a, n - 1)

\* the table's BaseInfo for an input base
get_base_info(input_base) ==
    [input_base |-> input_base, output_base |-> B13, num_chunks |-> NUM_CHUNKS, max_chunks |-> MAX_CHUNKS]

\* arith_helpers convert_b9_coef: the bit a base-9 digit stands for
convert_b9_coef(x) == <<0, 0, 1, 1, 0, 0, 1, 1, 0>>[x + 1]

\* the conversion of one digit: a bit stays, a base-9 digit becomes its bit
convert_chunk(input_base, x) == IF input_base = B2 THEN x ELSE convert_b9_coef(x)

\* BigUint::to_radix_le: the digits of x, least significant first
RECURSIVE to_radix_le(_, _)
to_radix_le(x, base) == IF x = 0 THEN <<>> ELSE <<x % base>> \o to_radix_le(x \div base, base)

\* Vec::resize(n, 0) and Vec::reverse
resize(v, n) == [i \in 1..n |-> IF i <= Len(v) THEN v[i] ELSE 0]

reverse(v) == [i \in 1..Len(v) |-> v[Len(v) + 1 - i]]

\* the number that the digits stand for, most significant first
RECURSIVE f_from_radix_be(_, _)
f_from_radix_be(chunks, base) ==
    IF chunks = <<>> THEN 0
    ELSE f_from_radix_be(SubSeq(chunks, 1, Len(chunks) - 1), base) * base + chunks[Len(chunks)]

\* the number of rows a lane takes
slice_count(bi) == (bi.max_chunks + bi.num_chunks - 1) \div bi.num_chunks

\* slice::rchunks(n).rev(): groups of n digits counted from the end, the
\* shorter remainder at the most significant side
rchunks_rev(v, n) ==
    LET k == (Len(v) + n - 1) \div n
        rem == Len(v) - (k - 1) * n
    IN [i \in 1..k |-> IF i = 1 THEN SubSeq(v, 1, rem) ELSE SubSeq(v, rem + (i - 2) * n + 1, rem + (i - 1) * n)]

\* BaseInfo::compute_coefs: the lane's digits, most significant first, are
\* grouped; the input coefficient of a group is its number in the input
\* base, the output coefficient the number of its converted digits in the
\* output base
compute_coefs(bi, input) ==
    LET input_chunks == reverse(resize(to_radix_le(input, bi.input_base), bi.max_chunks))
        groups == rchunks_rev(input_chunks, bi.num_chunks)
        converted(g) == [j \in 1..Len(g) |-> convert_chunk(bi.input_base, g[j])]
    IN [input_coefs |-> [i \in 1..Len(groups) |-> f_from_radix_be(groups[i], bi.input_base)],
        output_coefs |-> [i \in 1..Len(groups) |-> f_from_radix_be(converted(groups[i]), bi.output_base)]]

\* BaseInfo::input_pobs and output_pobs: the power of the base that each
\* group of digits is weighed by
input_pobs(bi) == [i \in 1..slice_count(bi) |-> IPow(bi.input_base, bi.num_chunks * (slice_count(bi) - i))]

output_pobs(bi) == [i \in 1..slice_count(bi) |-> IPow(bi.output_base, bi.num_chunks * (slice_count(bi) - i))]

\* AddConfig::linear_combine: the cell that holds sum xs[i] * ys[i]; given
\* an outcome, that cell is constrained to equal it
linear_combine(xs, ys, outcome) ==
    [value |-> SumSeq([i \in 1..Len(xs) |-> xs[i] * ys[i]]),
     constrain_equal |-> IF outcome = <<>> THEN <<>> ELSE <<SumSeq([i \in 1..Len(xs) |-> xs[i] * ys[i]]), outcome[1]>>]

\* a variant that weighs the output coefficients by the powers of the input
\* base
assign_lane_mut(bi, input) ==
    LET coefs == compute_coefs(bi, input)
        region == [offset \in 1..Len(coefs.input_coefs) |->
                     [q_lookup |-> 1, input_coef |-> coefs.input_coefs[offset], output_coef |-> coefs.output_coefs[offset]]]
        input_coef_cells == [i \in 1..Len(region) |-> region[i].input_coef]
        output_coef_cells == [i \in 1..Len(region) |-> region[i].output_coef]
    IN [region |-> region,
        input_lane |-> linear_combine(input_coef_cells, input_pobs(bi), <<input>>),
        output_lane |-> linear_combine(output_coef_cells, input_pobs(bi), <<>>)]

\* assign_lane: one row per group of digits, with the lookup enabled and the
\* two coefficients; the input coefficients are combined with input_pobs
\* into a cell constrained to equal the input lane, the output coefficients
\* with output_pobs into the lane that is returned
assign_lane(bi, input) ==
    LET coefs == compute_coefs(bi, input)
        region == [offset \in 1..Len(coefs.input_coefs) |->
                     [q_lookup |-> 1, input_coef |-> coefs.input_coefs[offset], output_coef |-> coefs.output_coefs[offset]]]
        input_coef_cells == [i \in 1..Len(region) |-> region[i].input_coef]
        output_coef_cells == [i \in 1..Len(region) |-> region[i].output_coef]
    IN [region |-> region,
        input_lane |-> linear_combine(input_coef_cells, input_pobs(bi), <<input>>),
        output_lane |-> linear_combine(output_coef_cells, output_pobs(bi), <<>>)]

\* lanes of the two input bases: zero, a lane of one group, a lane whose
\* digits reach into the remainder group, the greatest lane
LaneSample(input_base) ==
    IF input_base = B2 THEN {0, 3, 22, IPow(B2, MAX_CHUNKS) - 1}
    ELSE {0, 47, 2 * IPow(B9, 4) + 3 * IPow(B9, 2) + 7 * B9 + 6, IPow(B9, MAX_CHUNKS) - 1}

BaseConversionInit ==
    \E input_base \in {B2, B9} :
        \E state \in [1..LANES -> LaneSample(input_base)] :
            bc = [phase |-> "lanes", base_info |-> get_base_info(input_base), state |-> state,
                  assigned |-> <<>>, returned |-> <<>>]

InitBaseConversion == AccIdle /\ NonExistingIdle /\ ExtIdle /\ RootIdle /\ NodeIdle /\ AssignIdle /\ LoadIdle /\ LeafShapeIdle /\ NonceBalanceIdle /\ StorageRootIdle /\ TraceIdle /\ BaseConversionInit

\* assign_state, one step of its map over the lanes: assign_lane of the next
\* lane
AssignLane ==
    /\ bc.phase = "lanes"
    /\ Len(bc.assigned) < Len(bc.state)
    /\ bc' = [bc EXCEPT !.assigned = Append(@, assign_lane(bc.base_info, bc.state[Len(bc.assigned) + 1]))]
    /\ UNCHANGED <<accVars, ne, ext, chain, trace, node, asg, ld, sl, nb, sr>>

\* assign_state returns: the output lanes, collected in the order of the
\* map
AssignStateReturn ==
    /\ bc.phase = "lanes"
    /\ Len(bc.assigned) = Len(bc.state)
    /\ bc' = [bc EXCEPT !.phase = "returned", !.returned = [i \in 1..Len(bc.assigned) |-> bc.assigned[i].output_lane.value]]
    /\ UNCHANGED <<accVars, ne, ext, chain, trace, node, asg, ld, sl, nb, sr>>

NextBaseConversion == AssignLane \/ AssignStateReturn

SpecBaseConversion == InitBaseConversion /\ [][NextBaseConversion]_vars

---------------------------------------------------------------------------
(* C28: the conversion of a lane and of a state *)

\* the digit-wise conversion of a lane: every digit of x in the input base,
\* converted, is the digit of the same weight in the output base
RECURSIVE ConvertLane(_, _, _)
ConvertLane(x, input_base, output_base) ==
    IF x = 0 THEN 0
    ELSE convert_chunk(input_base, x % input_base) + output_base * ConvertLane(x \div input_base, input_base, output_base)

\* the base conversion is under way or has returned
BaseConversionRuns == bc.phase \in {"lanes", "returned"}

---------------------------------------------------------------------------
(* C29: c16/c1 and the multiplier along a path *)

\* the nibbles of the key consumed above modified_node of the branch of
\* level i: those of the levels above and of the level's own extension
NibblesAbove(i) == Len(PathNibbles(SubSeq(trace.levels, 1, i))) - 1

\* key_rlc_mult of the level above level i, 1 above the trie's first level
MultAbove(i) == IF i = 1 THEN 1 ELSE trace.levels[i - 1].key_rlc_mult

\* C29: whatever levels the path is made of below the trie's root or the
\* account leaf (branches, branches under an extension node of an even or an
\* odd number of nibbles), a branch has sel1 = 1 exactly when an even number
\* of nibbles is consumed above its modified_node and sel2 = 1 exactly when
\* an odd number is; a branch's nibble multiplies key_rlc_mult by r exactly
\* when its sel2 is 1, so that the multiplier is r to the number of nibbles
\* consumed under c1
C29_SelParity ==
    \A i \in 1..Len(trace.levels) :
        LET lv == trace.levels[i]
        IN /\ (lv.sel1 = 1) = (NibblesAbove(i) % 2 = 0)
           /\ (lv.sel2 = 1) = (NibblesAbove(i) % 2 = 1)
           /\ lv.seg = <<>> => lv.key_rlc_mult = (IF lv.sel2 = 1 THEN FMul(MultAbove(i), acc_r) ELSE MultAbove(i))
           /\ lv.key_rlc_mult = FPow(acc_r, (NibblesAbove(i) + 1) \div 2)

\* an account trie: a branch under c16, a branch under c1 that advances the
\* multiplier, then an extension node of two nibbles whose branch is under
\* c16 again
C29_Witness ==
    /\ trace.trie = "account"
    /\ Len(trace.levels) = 3
    /\ trace.levels[1].seg = <<>> /\ trace.levels[1].sel1 = 1 /\ trace.levels[1].key_rlc_mult = 1
    /\ trace.levels[2].seg = <<>> /\ trace.levels[2].sel2 = 1 /\ trace.levels[2].key_rlc_mult = acc_r
    /\ Len(trace.levels[3].seg) = 2 /\ trace.levels[3].sel1 = 1 /\ NibblesAbove(3) = 4
    /\ trace.levels[3].key_rlc_mult = FPow(acc_r, 2)

---------------------------------------------------------------------------
(* SpecStorageRoot: storage_root_in_account_leaf.rs.  The rows are the     *)
(* rows of the circuit: the last branch of the account trie, the eight     *)
(* account leaf rows, then either the rows of the storage trie's first     *)
(* branch (with or without extension node) and of the leaf below it, or    *)
(* the rows of a storage leaf alone.  The lookups and the gate are         *)
(* evaluated at every row, the cells they query are found by rotation; a   *)
(* rotation that leaves the rows reads 0.  The flags of a branch init row  *)
(* (cells of s_advices in the circuit) are columns of their own here.      *)

BRANCH_ROWS_NUM == 19

LEAF_VALUE_S_IND == 1

LEAF_VALUE_C_IND == 3

ACCOUNT_LEAF_STORAGE_CODEHASH_S_IND == 5

ACCOUNT_LEAF_STORAGE_CODEHASH_C_IND == 6

ACCOUNT_LEAF_ROWS == 8

\* the hash of the empty trie, over the width of a hash
empty_trie_hash ==
    SubSeq(<<86, 232, 31, 23, 27, 204, 85, 166, 255, 131, 69, 230, 146, 192, 248, 110, 91, 72,
             224, 27, 153, 108, 173, 192, 1, 98, 47, 181, 227, 99, 180, 33>>, 1, HASH_WIDTH)

\* helpers.rs bytes_expr_into_rlc: the RLC of the cells of message
bytes_expr_into_rlc(message) == bytes_into_rlc(message)

\* a row whose cells are not assigned
BlankRow ==
    [not_first_level |-> 0, is_leaf_s_value |-> 0, is_leaf_c_value |-> 0,
     is_account_leaf_in_added_branch |-> 0, is_last_branch_child |-> 0,
     s_advices |-> [k \in 1..HASH_WIDTH |-> 0],
     is_branch_s_placeholder |-> 0, is_branch_c_placeholder |-> 0, is_extension_node |-> 0,
     acc_s |-> 0, acc_mult_s |-> 0, acc_c |-> 0, acc_mult_c |-> 0, sel1 |-> 0, sel2 |-> 0, q_enable |-> 0]

\* meta.query_advice(column, Rotation(rot)) at row i of the rows g
query(g, i, column, rot) == IF (i + rot) \in 1..Len(g) THEN g[i + rot][column] ELSE BlankRow[column]

\* lookup "storage_root_in_account_leaf 1: root of the first level branch in
\* account leaf", in the last branch child
root_of_first_level_branch(g, i, is_s) ==
    LET not_first_level == query(g, i, "not_first_level", 0)
        rot_into_branch_init == -16
        is_branch_placeholder == query(g, i, IF is_s THEN "is_branch_s_placeholder" ELSE "is_branch_c_placeholder", rot_into_branch_init)
        is_account_leaf_in_added_branch == query(g, i, "is_account_leaf_in_added_branch", rot_into_branch_init - 1)
        is_ext_node == query(g, i, "is_extension_node", rot_into_branch_init)
        is_last_branch_child == query(g, i, "is_last_branch_child", 0)
        acc_cell == query(g, i, IF is_s THEN "acc_s" ELSE "acc_c", 0)
        mult_cell == query(g, i, IF is_s THEN "acc_mult_s" ELSE "acc_mult_c", 0)
        branch_rlc == FAdd(acc_cell, FMul(128, mult_cell))
        sc_hash == query(g, i, "s_advices", rot_into_branch_init - (ACCOUNT_LEAF_ROWS -
                           (IF is_s THEN ACCOUNT_LEAF_STORAGE_CODEHASH_S_IND ELSE ACCOUNT_LEAF_STORAGE_CODEHASH_C_IND)))
        hash_rlc == bytes_expr_into_rlc(sc_hash)
        on == FProd(<<not_first_level, FNot(is_ext_node), is_last_branch_child, is_account_leaf_in_added_branch, FNot(is_branch_placeholder)>>)
    IN << FMul(on, branch_rlc), FMul(on, hash_rlc) >>

\* lookup "storage_root_in_account_leaf 2: root of the first level extension
\* node in account leaf", in the extension row of the side
root_of_first_level_extension(g, i, is_s) ==
    LET not_first_level == query(g, i, "not_first_level", 0)
        rot_into_branch_init == IF is_s THEN -17 ELSE -18
        rot_into_last_branch_child == IF is_s THEN -1 ELSE -2
        is_branch_placeholder == query(g, i, IF is_s THEN "is_branch_s_placeholder" ELSE "is_branch_c_placeholder", rot_into_branch_init)
        is_account_leaf_in_added_branch == query(g, i, "is_account_leaf_in_added_branch", rot_into_branch_init - 1)
        is_ext_node == query(g, i, "is_extension_node", rot_into_branch_init)
        is_after_last_branch_child == query(g, i, "is_last_branch_child", rot_into_last_branch_child)
        acc_cell == query(g, i, "acc_c", 0)
        sc_hash == query(g, i, "s_advices", rot_into_branch_init - (ACCOUNT_LEAF_ROWS -
                           (IF is_s THEN ACCOUNT_LEAF_STORAGE_CODEHASH_S_IND ELSE ACCOUNT_LEAF_STORAGE_CODEHASH_C_IND)))
        hash_rlc == bytes_expr_into_rlc(sc_hash)
        on == FProd(<<not_first_level, is_ext_node, is_after_last_branch_child, is_account_leaf_in_added_branch, FNot(is_branch_placeholder)>>)
    IN << FMul(on, acc_cell), FMul(on, hash_rlc) >>

\* a variant that reads the storage root of the S side for either side
root_of_first_level_leaf_mut(g, i, is_s) ==
    LET not_first_level == query(g, i, "not_first_level", 0)
        leaf_value_ind == IF is_s THEN LEAF_VALUE_S_IND ELSE LEAF_VALUE_C_IND
        rot_into_storage_root == (-leaf_value_ind) - (ACCOUNT_LEAF_ROWS - ACCOUNT_LEAF_STORAGE_CODEHASH_S_IND)
        rot_into_last_account_row == (-leaf_value_ind) - 1
        is_leaf == query(g, i, IF is_s THEN "is_leaf_s_value" ELSE "is_leaf_c_value", 0)
        is_placeholder == query(g, i, IF is_s THEN "sel1" ELSE "sel2", 0)
        is_account_leaf_in_added_branch == query(g, i, "is_account_leaf_in_added_branch", rot_into_last_account_row)
        acc_cell == query(g, i, "acc_s", 0)
        hash_rlc == bytes_expr_into_rlc(query(g, i, "s_advices", rot_into_storage_root))
        on == FProd(<<not_first_level, is_leaf, FNot(is_placeholder), is_account_leaf_in_added_branch>>)
    IN << FMul(on, acc_cell), FMul(on, hash_rlc) >>

\* lookup "storage_root_in_account_leaf 3: root of the first level storage
\* leaf in account leaf", in the leaf value row of the side; sel is the
\* side's placeholder flag of the leaf
root_of_first_level_leaf(g, i, is_s) ==
    LET not_first_level == query(g, i, "not_first_level", 0)
        leaf_value_ind == IF is_s THEN LEAF_VALUE_S_IND ELSE LEAF_VALUE_C_IND
        rot_into_storage_root == (-leaf_value_ind) - (ACCOUNT_LEAF_ROWS -
                           (IF is_s THEN ACCOUNT_LEAF_STORAGE_CODEHASH_S_IND ELSE ACCOUNT_LEAF_STORAGE_CODEHASH_C_IND))
        rot_into_last_account_row == (-leaf_value_ind) - 1
        is_leaf == query(g, i, IF is_s THEN "is_leaf_s_value" ELSE "is_leaf_c_value", 0)
        is_placeholder == query(g, i, IF is_s THEN "sel1" ELSE "sel2", 0)
        is_account_leaf_in_added_branch == query(g, i, "is_account_leaf_in_added_branch", rot_into_last_account_row)
        acc_cell == query(g, i, "acc_s", 0)
        hash_rlc == bytes_expr_into_rlc(query(g, i, "s_advices", rot_into_storage_root))
        on == FProd(<<not_first_level, is_leaf, FNot(is_placeholder), is_account_leaf_in_added_branch>>)
    IN << FMul(on, acc_cell), FMul(on, hash_rlc) >>

\* gate "storage leaf in first level - leaf placeholder in first level
\* requires empty trie"
placeholder_requires_empty_trie(g, i, is_s) ==
    LET q_enable == query(g, i, "q_enable", 0)
        leaf_value_ind == IF is_s THEN LEAF_VALUE_S_IND ELSE LEAF_VALUE_C_IND
        rot_into_storage_root == (-leaf_value_ind) - (ACCOUNT_LEAF_ROWS -
                           (IF is_s THEN ACCOUNT_LEAF_STORAGE_CODEHASH_S_IND ELSE ACCOUNT_LEAF_STORAGE_CODEHASH_C_IND))
        rot_into_last_account_row == (-leaf_value_ind) - 1
        is_leaf == query(g, i, IF is_s THEN "is_leaf_s_value" ELSE "is_leaf_c_value", 0)
        is_placeholder == query(g, i, IF is_s THEN "sel1" ELSE "sel2", 0)
        is_account_leaf_above == query(g, i, "is_account_leaf_in_added_branch", rot_into_last_account_row)
        s == query(g, i, "s_advices", rot_into_storage_root)
    IN [ind \in 1..HASH_WIDTH |-> FProd(<<q_enable, is_placeholder, is_account_leaf_above, is_leaf, FSub(s[ind], empty_trie_hash[ind])>>)]

\* lookup "storage_root_in_account_leaf 4: root of the first level storage
\* leaf (after branch placeholder) in account leaf", in the leaf value row
\* of the side
root_of_leaf_after_placeholder(g, i, is_s) ==
    LET not_first_level == query(g, i, "not_first_level", 0)
        leaf_value_ind == IF is_s THEN LEAF_VALUE_S_IND ELSE LEAF_VALUE_C_IND
        rot_into_storage_root == (-leaf_value_ind) - (ACCOUNT_LEAF_ROWS -
                           (IF is_s THEN ACCOUNT_LEAF_STORAGE_CODEHASH_S_IND ELSE ACCOUNT_LEAF_STORAGE_CODEHASH_C_IND)) - BRANCH_ROWS_NUM
        rot_into_last_account_row == (-leaf_value_ind) - 1
        rot_into_last_account_row_placeholder == (-leaf_value_ind) - 1 - BRANCH_ROWS_NUM
        is_leaf == query(g, i, IF is_s THEN "is_leaf_s_value" ELSE "is_leaf_c_value", 0)
        rot_into_branch_init == (-leaf_value_ind) - BRANCH_ROWS_NUM
        is_branch_placeholder == query(g, i, IF is_s THEN "is_branch_s_placeholder" ELSE "is_branch_c_placeholder", rot_into_branch_init)
        is_account_leaf_in_added_branch_placeholder == query(g, i, "is_account_leaf_in_added_branch", rot_into_last_account_row_placeholder)
        is_account_leaf_in_added_branch == query(g, i, "is_account_leaf_in_added_branch", rot_into_last_account_row)
        acc_cell == query(g, i, "acc_s", 0)
        hash_rlc == bytes_expr_into_rlc(query(g, i, "s_advices", rot_into_storage_root))
        on == FProd(<<not_first_level, is_leaf, FNot(is_account_leaf_in_added_branch), is_account_leaf_in_added_branch_placeholder, is_branch_placeholder>>)
    IN << FMul(on, acc_cell), FMul(on, hash_rlc) >>

\* the nodes hashed in this run, the hash-relation table loaded for them
\* (a fixed column's unassigned rows hold 0) and the values the prover tries
\* for the cells: the RLC of a hashed node or another value; the hash of a
\* hashed node or of the empty trie
StorageNodeSample == {<<1, 2>>, <<200>>}

HashRelation == {keccak_table_row(t) : t \in StorageNodeSample}

StorageRootTable == {<<0, 0>>} \cup HashRelation

NodeRlcSample == {bytes_into_rlc(t) : t \in StorageNodeSample} \cup {9}

StorageRootSample == {compute_keccak(t) : t \in StorageNodeSample} \cup {empty_trie_hash}

\* a row of the circuit's usable rows, with cells that no lookup of this
\* component should read
OtherRow == [BlankRow EXCEPT !.q_enable = 1, !.not_first_level = 1, !.acc_s = 9, !.acc_mult_s = 4, !.acc_c = 9, !.acc_mult_c = 4]

\* the 19 rows of a branch: init, 16 children, extension S, extension C
BranchBlock(init, last_child, ext_s, ext_c) ==
    [k \in 1..BRANCH_ROWS_NUM |->
        IF k = 1 THEN init
        ELSE IF k = 17 THEN [last_child EXCEPT !.is_last_branch_child = 1]
        ELSE IF k = 18 THEN ext_s
        ELSE IF k = 19 THEN ext_c
        ELSE OtherRow]

\* the account leaf rows: the storage roots stand in s_advices of the rows
\* ACCOUNT_LEAF_STORAGE_CODEHASH_S_IND and _C_IND, the last row is flagged
AccountLeafBlock(root_s, root_c) ==
    [k \in 1..ACCOUNT_LEAF_ROWS |->
        [OtherRow EXCEPT !.s_advices = IF k - 1 = ACCOUNT_LEAF_STORAGE_CODEHASH_S_IND THEN root_s
                                       ELSE IF k - 1 = ACCOUNT_LEAF_STORAGE_CODEHASH_C_IND THEN root_c
                                       ELSE [j \in 1..HASH_WIDTH |-> 40 + k],
                         !.is_account_leaf_in_added_branch = IF k = ACCOUNT_LEAF_ROWS THEN 1 ELSE 0]]

\* the rows of a storage leaf: key S, value S, key C, value C, drifted
LeafBlock(rlc_s, placeholder_s, rlc_c, placeholder_c) ==
    << OtherRow,
       [OtherRow EXCEPT !.is_leaf_s_value = 1, !.acc_s = rlc_s, !.sel1 = placeholder_s],
       OtherRow,
       [OtherRow EXCEPT !.is_leaf_c_value = 1, !.acc_s = rlc_c, !.sel2 = placeholder_c],
       OtherRow >>

\* the node at the top of the storage trie on the side sd of the layout s
TopNodeKind(s, sd) ==
    IF s.top = "leaf" THEN (IF s.placeholder \in {sd, "both"} THEN "placeholder_leaf" ELSE "leaf")
    ELSE IF s.placeholder = sd THEN "leaf_after_placeholder"
    ELSE s.top

\* the rows of the layout s: the last branch of the account trie, the
\* account leaf, the top of the storage trie.  The RLC of the top node of a
\* side stands where the component's rows keep it: with a branch in acc and
\* mult of the last child (short of the 128 of the branch's value), with an
\* extension node in acc_c of the side's extension row, with a leaf in acc_s
\* of the side's value row; the rows of a placeholder branch are a copy of
\* the other side's
StorageRootRows(s) ==
    LET bit(b) == IF b THEN 1 ELSE 0
        real(sd) == IF s.placeholder = sd THEN (IF sd = "s" THEN "c" ELSE "s") ELSE sd
        branch_cell(sd) == IF s.top = "branch" THEN FSub(s[real(sd)].node, FMul(128, acc_r)) ELSE 9
        ext_cell(sd) == IF s.top = "extension" THEN s[real(sd)].node ELSE 9
        leaf_cell(sd) == IF TopNodeKind(s, sd) \in {"leaf", "leaf_after_placeholder"} THEN s[sd].node ELSE 9
        init == [OtherRow EXCEPT !.is_branch_s_placeholder = bit(s.placeholder = "s"),
                                 !.is_branch_c_placeholder = bit(s.placeholder = "c"),
                                 !.is_extension_node = bit(s.top = "extension")]
        last_child == [OtherRow EXCEPT !.acc_s = branch_cell("s"), !.acc_mult_s = acc_r, !.acc_c = branch_cell("c"), !.acc_mult_c = acc_r]
        leaf == LeafBlock(leaf_cell("s"), bit(TopNodeKind(s, "s") = "placeholder_leaf"),
                          leaf_cell("c"), bit(TopNodeKind(s, "c") = "placeholder_leaf"))
    IN BranchBlock(OtherRow, OtherRow, OtherRow, OtherRow)
         \o AccountLeafBlock(s.s.root, s.c.root)
         \o (IF s.top = "leaf" THEN leaf
             ELSE BranchBlock(init, last_child, [OtherRow EXCEPT !.acc_c = ext_cell("s")], [OtherRow EXCEPT !.acc_c = ext_cell("c")]) \o leaf)

\* the component's lookups and its gate hold in every row, for either side
StorageRootAccepted(g) ==
    \A i \in 1..Len(g), is_s \in BOOLEAN :
        /\ root_of_first_level_branch(g, i, is_s) \in StorageRootTable
        /\ root_of_first_level_extension(g, i, is_s) \in StorageRootTable
        /\ root_of_first_level_leaf(g, i, is_s) \in StorageRootTable
        /\ root_of_leaf_after_placeholder(g, i, is_s) \in StorageRootTable
        /\ AllZero(placeholder_requires_empty_trie(g, i, is_s))

NoSide == [node |-> 0, root |-> [k \in 1..HASH_WIDTH |-> 0]]

\* the layouts: a branch, an extension node or a leaf at the top of the
\* storage trie; a branch (with its extension node) that is a placeholder on
\* one side, a leaf that is a placeholder on one side or on both
StorageRootInit ==
    \E top \in {"branch", "extension", "leaf"}, placeholder \in {"none", "s", "c", "both"} :
        /\ placeholder = "both" => top = "leaf"
        /\ sr = [phase |-> "layout", top |-> top, placeholder |-> placeholder, s |-> NoSide, c |-> NoSide]

InitStorageRoot == AccIdle /\ NonExistingIdle /\ ExtIdle /\ RootIdle /\ NodeIdle /\ AssignIdle /\ LoadIdle /\ LeafShapeIdle /\ NonceBalanceIdle /\ BaseConversionIdle /\ TraceIdle /\ StorageRootInit

\* the account leaf's storage roots are filled
FillStorageRoots ==
    /\ sr.phase = "layout"
    /\ \E root_s, root_c \in StorageRootSample :
         sr' = [sr EXCEPT !.phase = "roots", !.s.root = root_s, !.c.root = root_c]
    /\ UNCHANGED <<accVars, ne, ext, chain, trace, node, asg, ld, sl, nb, bc>>

\* the RLC cells of the top nodes of the two sides are filled
FillTopNodes ==
    /\ sr.phase = "roots"
    /\ \E node_s, node_c \in NodeRlcSample :
         sr' = [sr EXCEPT !.phase = "filled", !.s.node = node_s, !.c.node = node_c]
    /\ UNCHANGED <<accVars, ne, ext, chain, trace, node, asg, ld, sl, nb, bc>>

\* the rows are verified
VerifyStorageRoot ==
    /\ sr.phase = "filled"
    /\ sr' = [sr EXCEPT !.phase = IF StorageRootAccepted(StorageRootRows(sr)) THEN "accepted" ELSE "rejected"]
    /\ UNCHANGED <<accVars, ne, ext, chain, trace, node, asg, ld, sl, nb, bc>>

NextStorageRoot == FillStorageRoots \/ FillTopNodes \/ VerifyStorageRoot

SpecStorageRoot == InitStorageRoot /\ [][NextStorageRoot]_vars

---------------------------------------------------------------------------
(* C30: the storage root in the account leaf *)

\* the rows have been verified and accepted
StorageRootRowsAccepted == sr.phase = "accepted"

\* C30: in accepted rows, on either side, the RLC of the storage trie's top
\* node (a branch, an extension node, a leaf, or the leaf below a branch
\* that is a placeholder on that side) and the RLC of the side's storage
\* root in the account leaf are a pair of the hash-relation table; where the
\* leaf is a placeholder without a branch above it, the side's storage root
\* is the hash of the empty trie
C30_StorageRootChecked ==
    StorageRootRowsAccepted =>
        \A sd \in {"s", "c"} :
            IF TopNodeKind(sr, sd) = "placeholder_leaf" THEN sr[sd].root = empty_trie_hash
            ELSE <<sr[sd].node, bytes_into_rlc(sr[sd].root)>> \in HashRelation

\* accepted rows whose S side is a leaf below a placeholder branch and whose
\* C side is the branch, under two different storage roots
C30_Witness ==
    /\ StorageRootRowsAccepted
    /\ sr.top = "branch" /\ sr.placeholder = "s"
    /\ TopNodeKind(sr, "s") = "leaf_after_placeholder" /\ TopNodeKind(sr, "c") = "branch"
    /\ sr.s.root # sr.c.root /\ sr.s.node # sr.c.node
    /\ <<sr.s.node, bytes_into_rlc(sr.s.root)>> \in HashRelation

====
